---- MODULE Spec2Model ----
(***************************************************************************)
(* Book-recommendation backend: the key normalizer and the tiered cache of *)
(* services/cache_service.py, the streaming relay of                       *)
(* routers/recommendations.py and its copy in main.py, the tag validator   *)
(* of models.py, the tags endpoint of routers/tags.py and the persistence  *)
(* functions of services/database_service.py.                              *)
(*                                                                         *)
(* Python str values are sequences of one-character strings; None is the   *)
(* value None below.                                                        *)
(***************************************************************************)
EXTENDS Integers, Sequences, FiniteSets, TLC

VARIABLES
    \* ---- key normalizer (get_cache_key applied to one query) ----
    kName,          \* book_name argument
    kTags,          \* tags argument
    kKey,           \* get_cache_key(kName, kTags)
    kOp,            \* how the arguments were last changed
    \* ---- tiered cache (module state of cache_service.py) ----
    cache,          \* _cache: key -> payload
    cache_ttl,      \* _cache_ttl: key -> expiry time
    redis_client,   \* _redis_client is not None
    redis,          \* contents of the Redis server: "recommendations:<key>" -> [val, exp]
    now,            \* time.time()
    call,           \* the last cache call: its arguments, outcome and return value
    \* ---- streaming relay (one run of _stream_recommendations) ----
    pc,             \* where the generator stands
    request_tags,   \* the tags argument
    tags,           \* the local variable tags
    accumulated_text,
    chunk_count,
    events,         \* the frames yielded so far, as their JSON objects
    consumed,       \* the fragments the upstream stream has delivered so far
    disconnected,   \* the client has gone away
    upstream,       \* what the upstream calls did so far: the tag call and the
                    \* content of its response, the generation call and the
                    \* iteration of the stream
    \* ---- the request tasks of the event loop ----
    left_at,        \* where the generator stood, and how many fragments had been
                    \* delivered, when the client went away
    other,          \* how many steps another request task has taken
    \* ---- the request tasks that call the cache ----
    task,           \* per task: the line of get_cached or set_cached it stands at,
                    \* and its local variables
    current,        \* the task that holds the thread of the event loop, or 0
    \* ---- request validation (BookRequest.validate_tags applied to one list) ----
    vIn,            \* the tags field as received
    vOut,           \* validate_tags(vIn)
    vEdits,         \* how many tags were added to the list
    \* ---- tags endpoint (get_tags of routers/tags.py) ----
    served,         \* the requests served so far: what the upstream call did and
                    \* what the caller got
    \* ---- persistence (the SQLite file of services/database_service.py) ----
    recommendations,    \* the rows of table recommendations, in id order
    search_history,     \* the rows of table search_history, in id order
    db_call,            \* the last call: its function, where the database failed,
                        \* whether it raised and what it returned
    saves,              \* the arguments of the save_recommendations calls that
                        \* met no failure, in call order
    \* ---- the relay of main.py, run on what the upstream calls did for the
    \*      relay of routers/recommendations.py ----
    m_pc,           \* where the generator of main.py stands
    m_tags,         \* its local variable tags
    m_accumulated_text,
    m_chunk_count,
    m_events,       \* the frames it yielded so far
    m_read,         \* how many fragments the stream has delivered to it
    written         \* the payload of the last set_cached for the key, of the last
                    \* one whose Redis write succeeded, of the last one that found
                    \* Redis not reachable (the cache called for one key)

kvars == <<kName, kTags, kKey, kOp>>
cvars == <<cache, cache_ttl, redis_client, redis, now, call>>
svars == <<pc, request_tags, tags, accumulated_text, chunk_count, events, consumed,
           disconnected, upstream>>
lvars == <<left_at, other>>
tvars == <<task, current>>
vvars == <<vIn, vOut, vEdits>>
gvars == <<served>>
dvars == <<recommendations, search_history, db_call, saves>>
hvars == <<written>>
mvars == <<m_pc, m_tags, m_accumulated_text, m_chunk_count, m_events, m_read>>
evars == <<vvars, gvars, dvars, hvars, mvars>>
vars == <<kvars, cvars, svars, lvars, tvars, evars>>

\* None and a raised KeyError, as values that are no str
None == <<"None">>
KeyError == <<"KeyError">>

(***************************************************************************)
(* Bounds of the model.                                                    *)
(***************************************************************************)
MaxTags == 2        \* longest tag list given to get_cache_key
MaxTime == 1        \* the clock runs from 0 to MaxTime
MaxFragments == 3   \* longest fragment sequence the upstream stream delivers
MaxOtherSteps == 1  \* most steps the other request task takes
NumTasks == 2       \* request tasks that call the cache
CACHE_MAX_SIZE == 2 \* capacity of the in-memory store (config.py reads it from the environment)
MaxEdits == 2       \* most tags added to the tag list of a request
MaxRequests == 2    \* most requests the tags endpoint serves
MaxDbWrites == 2    \* most committed writes to the database
DB_MAX_RECOMMENDATION_LENGTH == 2 \* longest text stored (config.py reads it from the environment)

(***************************************************************************)
(* Strings.                                                                *)
(***************************************************************************)
\* ord(c) for the characters the model uses
Ord(c) ==
    CASE c = "\t" -> 9
      [] c = " " -> 32
      [] c = "'" -> 39
      [] c = "," -> 44
      [] c = ":" -> 58
      [] c = "A" -> 65
      [] c = "B" -> 66
      [] c = "[" -> 91
      [] c = "]" -> 93
      [] c = "a" -> 97
      [] c = "b" -> 98

\* str.lower() on one character
LowerChar(c) ==
    CASE c = "A" -> "a"
      [] c = "B" -> "b"
      [] OTHER -> c

\* str.lower()
Lower(s) == [i \in 1..Len(s) |-> LowerChar(s[i])]

IsSpace(c) == c \in {" ", "\t"}

RECURSIVE LStrip(_)
LStrip(s) == IF s # <<>> /\ IsSpace(Head(s)) THEN LStrip(Tail(s)) ELSE s

RECURSIVE RStrip(_)
RStrip(s) ==
    IF s # <<>> /\ IsSpace(s[Len(s)]) THEN RStrip(SubSeq(s, 1, Len(s) - 1)) ELSE s

\* str.strip()
Strip(s) == RStrip(LStrip(s))

\* s < t for Python str (code point order, a proper prefix is smaller)
RECURSIVE StrLess(_, _)
StrLess(s, t) ==
    IF t = <<>> THEN FALSE
    ELSE IF s = <<>> THEN TRUE
    ELSE IF Ord(Head(s)) # Ord(Head(t)) THEN Ord(Head(s)) < Ord(Head(t))
    ELSE StrLess(Tail(s), Tail(t))

\* insert x into the sorted list l, after the elements that are not greater
RECURSIVE InsertSorted(_, _)
InsertSorted(x, l) ==
    IF l = <<>> THEN <<x>>
    ELSE IF StrLess(x, Head(l)) THEN <<x>> \o l
    ELSE <<Head(l)>> \o InsertSorted(x, Tail(l))

\* sorted(l) for a list of str
RECURSIVE Sorted(_)
Sorted(l) ==
    IF l = <<>> THEN <<>>
    ELSE InsertSorted(l[Len(l)], Sorted(SubSeq(l, 1, Len(l) - 1)))

\* repr(s) for a str without quote characters
ReprStr(s) == <<"'">> \o s \o <<"'">>

RECURSIVE JoinRepr(_)
JoinRepr(l) ==
    IF l = <<>> THEN <<>>
    ELSE IF Len(l) = 1 THEN ReprStr(l[1])
    ELSE ReprStr(Head(l)) \o <<",", " ">> \o JoinRepr(Tail(l))

\* f"{l}" for a list of str
ReprList(l) == <<"[">> \o JoinRepr(l) \o <<"]">>

\* hashlib.md5(data.encode()).hexdigest(): a digest determined by its input and
\* free of collisions on the inputs of the model
Md5Hex(data) == <<"md5", data>>

(***************************************************************************)
(* Key normalizer.                                                         *)
(***************************************************************************)
\* [tag.lower().strip() for tag in tags if tag] (first as if the filter were
\* "if tag.strip()")
RECURSIVE NormalizeEach_StripFirst(_)
NormalizeEach_StripFirst(tag_list) ==
    IF tag_list = <<>> THEN <<>>
    ELSE IF Strip(Head(tag_list)) # <<>>
         THEN <<Strip(Lower(Head(tag_list)))>> \o NormalizeEach_StripFirst(Tail(tag_list))
         ELSE NormalizeEach_StripFirst(Tail(tag_list))

RECURSIVE NormalizeEach(_)
NormalizeEach(tag_list) ==
    IF tag_list = <<>> THEN <<>>
    ELSE IF Head(tag_list) # <<>>
         THEN <<Strip(Lower(Head(tag_list)))>> \o NormalizeEach(Tail(tag_list))
         ELSE NormalizeEach(Tail(tag_list))

get_cache_key(book_name, tag_list) ==
    LET normalized_name == Strip(Lower(book_name))
        normalized_tags == Sorted(NormalizeEach(tag_list))
        key_data == normalized_name \o <<":">> \o ReprList(normalized_tags)
    IN  Md5Hex(key_data)

(***************************************************************************)
(* Key normalizer: get_cache_key applied to a query whose arguments are    *)
(* rewritten step by step.                                                 *)
(***************************************************************************)
BookNames == { <<"a">>, <<"A">>, <<" ", "a">>, <<"b">> }

TagStrs == { <<>>, <<" ">>, <<"a">>, <<"A">>, <<"b">>, <<"B">>, <<"a", " ">>, <<" ", "B">> }

TagLists == UNION { [1..n -> TagStrs] : n \in 0..MaxTags }

\* s and t differ at most in the case of their letters
SameButCase(s, t) ==
    /\ Len(s) = Len(t)
    /\ \A i \in 1..Len(s) : LowerChar(s[i]) = LowerChar(t[i])

\* s is core with blanks around it
IsPaddingOf(s, core) ==
    \E l \in 0..Len(s) :
        /\ l + Len(core) <= Len(s)
        /\ SubSeq(s, l + 1, l + Len(core)) = core
        /\ \A i \in 1..Len(s) : (i <= l \/ i > l + Len(core)) => IsSpace(s[i])

\* s and t differ at most in the blanks around a common core
SameButPadding(s, t) ==
    \E a \in 0..Len(s) : \E b \in a..Len(s) :
        /\ IsPaddingOf(s, SubSeq(s, a + 1, b))
        /\ IsPaddingOf(t, SubSeq(s, a + 1, b))

\* l with the elements at i and j exchanged
Swap(l, i, j) == [l EXCEPT ![i] = l[j], ![j] = l[i]]

\* l without its i-th element
RemoveAt(l, i) == SubSeq(l, 1, i - 1) \o SubSeq(l, i + 1, Len(l))

KeyOf(op, name, tag_list) ==
    /\ kOp' = op
    /\ kName' = name
    /\ kTags' = tag_list
    /\ kKey' = get_cache_key(name, tag_list)
    /\ UNCHANGED <<cvars, svars, lvars, tvars, evars>>

\* the same tags in another order
KPermute ==
    \E i, j \in 1..Len(kTags) :
        /\ i < j
        /\ KeyOf("permute", kName, Swap(kTags, i, j))

\* one tag in another letter case
KRecaseTag ==
    \E i \in 1..Len(kTags) : \E t \in TagStrs :
        /\ t # kTags[i]
        /\ SameButCase(kTags[i], t)
        /\ KeyOf("recase", kName, [kTags EXCEPT ![i] = t])

\* one tag with other blanks around it
KRepadTag ==
    \E i \in 1..Len(kTags) : \E t \in TagStrs :
        /\ t # kTags[i]
        /\ SameButPadding(kTags[i], t)
        /\ KeyOf("repad", kName, [kTags EXCEPT ![i] = t])

\* the name in another letter case or with other blanks around it
KRewriteName ==
    \E n \in BookNames :
        /\ n # kName
        /\ \/ SameButCase(kName, n)
           \/ SameButPadding(kName, n)
        /\ KeyOf("rename", n, kTags)

\* one tag of the list given once more
KRepeatTag ==
    \E i \in 1..Len(kTags) :
        /\ Len(kTags) < MaxTags
        /\ KeyOf("repeat", kName, Append(kTags, kTags[i]))

\* a tag that occurs twice given once less
KUnrepeatTag ==
    \E i, j \in 1..Len(kTags) :
        /\ i < j
        /\ kTags[i] = kTags[j]
        /\ KeyOf("unrepeat", kName, RemoveAt(kTags, j))

KeyInit ==
    /\ kOp = "new"
    /\ kName \in BookNames
    /\ kTags \in TagLists
    /\ kKey = get_cache_key(kName, kTags)

KeyIdle ==
    /\ kOp = "new"
    /\ kName = <<"a">>
    /\ kTags = <<>>
    /\ kKey = get_cache_key(kName, kTags)

KeyNext ==
    \/ KPermute
    \/ KRecaseTag
    \/ KRepadTag
    \/ KRewriteName
    \/ KRepeatTag
    \/ KUnrepeatTag

(***************************************************************************)
(* Tiered cache.                                                           *)
(***************************************************************************)
\* dict operations
EmptyDict == <<>>
DictGet(d, k, default) == IF k \in DOMAIN d THEN d[k] ELSE default
DictSet(d, k, v) == [x \in DOMAIN d \cup {k} |-> IF x = k THEN v ELSE d[x]]
DictPop(d, k) == [x \in DOMAIN d \ {k} |-> d[x]]
DictPopAll(d, ks) == [x \in DOMAIN d \ ks |-> d[x]]

\* result strings handed to set_cached: texts of recommendations, not empty
Payloads == { <<"x">>, <<"y">> }

\* ttl arguments, in seconds
TTLs == {1, 2}

\* book names with pairwise different keys, one more than the store can hold
NameN(n) == [i \in 1..n |-> "a"]

\* the queries the cache is called with: without a Redis client one key more
\* than the store can hold, with a Redis client two keys
CacheQueries ==
    { [name |-> NameN(n), tags |-> <<>>] :
        n \in 1..(IF redis_client THEN 2 ELSE CACHE_MAX_SIZE + 1) }

\* f"recommendations:{key}"
RedisKey(key) == <<"recommendations:", key>>

\* outcomes of the Redis commands of one call: there is no client, every
\* command succeeds, or the first command raises
RedisOutcomes == IF redis_client THEN {"ok", "fail"} ELSE {"none"}

\* the exceptions a failing Redis command raises: redis.ConnectionError,
\* redis.TimeoutError, and any other
RedisErrors == {"ConnectionError", "TimeoutError", "ResponseError"}

\* except Exception (lines 84, 123, 159, 183) catches the exception e of a Redis
\* command: every one of them derives from Exception
CatchesRedisError_ConnectionOnly(e) == e = "ConnectionError"

CatchesRedisError(e) == e \in RedisErrors

\* a Redis command with outcome r raises an exception that leaves the function,
\* raises none or one that the function's handler catches
Propagates(r) == r = "fail" /\ { e \in RedisErrors : ~CatchesRedisError(e) } # {}

Absorbed(r) == IF r = "fail" THEN { e \in RedisErrors : CatchesRedisError(e) } # {} ELSE TRUE

\* _redis_client.get(name): the value, None when the key is absent or expired
RedisGet(name) ==
    IF name \in DOMAIN redis /\ now < redis[name].exp THEN redis[name].val ELSE None

\* _redis_client.setex(name, ttl, value)
RedisSetex(name, ttl, value) == DictSet(redis, name, [val |-> value, exp |-> now + ttl])

\* bool(x) for x a str or None (first as "x is not None")
Truthy_NotNone(x) == x # None

Truthy(x) == x # None /\ x # <<>>

\* time.time() < _cache_ttl.get(key, 0) (line 89)
IsLive_Inclusive(key) == now <= DictGet(cache_ttl, key, 0)

IsLive(key) == now < DictGet(cache_ttl, key, 0)

\* lines 94-95: both maps without the expired key
RemoveExpired_Keep(c, t, key) == [c |-> c, t |-> t]

RemoveExpired_EveryExpired(c, t, key) ==
    [c |-> DictPopAll(c, { k \in DOMAIN t : now >= t[k] }),
     t |-> DictPopAll(t, { k \in DOMAIN t : now >= t[k] })]

RemoveExpired(c, t, key) == [c |-> DictPop(c, key), t |-> DictPop(t, key)]

\* get_cached(book_name, tags) with Redis outcome r
get_cached(q, r) ==
    LET key == get_cache_key(q.name, q.tags)
        cached_data == IF r = "ok" THEN RedisGet(RedisKey(key)) ELSE None
        prev_set == call.op = "set" /\ call.key = key
    IN  /\ r \in RedisOutcomes
        /\ \/ \* the exception of line 80 leaves get_cached
               /\ Propagates(r)
               /\ call' = [op |-> "get", key |-> key, r |-> r, ret |-> None,
                           removed |-> {}, prev_set |-> prev_set, raised |-> TRUE]
               /\ UNCHANGED <<cache, cache_ttl>>
           \/  /\ Absorbed(r)
               /\ IF Truthy(cached_data)
                  THEN \* lines 81-83
                       /\ call' = [op |-> "get", key |-> key, r |-> r,
                                   ret |-> cached_data, removed |-> {},
                                   prev_set |-> prev_set, raised |-> FALSE]
                       /\ UNCHANGED <<cache, cache_ttl>>
                  ELSE IF key \in DOMAIN cache /\ ~IsLive(key)
                  THEN \* lines 92-95: del _cache[key]; del _cache_ttl[key]
                       /\ cache' = RemoveExpired(cache, cache_ttl, key).c
                       /\ cache_ttl' = RemoveExpired(cache, cache_ttl, key).t
                       /\ call' = [op |-> "get", key |-> key, r |-> r,
                                   ret |-> IF key \in DOMAIN cache_ttl THEN None
                                                                      ELSE KeyError,
                                   removed |-> {key}, prev_set |-> prev_set,
                                   raised |-> key \notin DOMAIN cache_ttl]
                  ELSE \* lines 88-91, 97-98
                       /\ call' = [op |-> "get", key |-> key, r |-> r,
                                   ret |-> IF key \in DOMAIN cache THEN cache[key]
                                                                  ELSE None,
                                   removed |-> {}, prev_set |-> prev_set,
                                   raised |-> FALSE]
                       /\ UNCHANGED <<cache, cache_ttl>>
        /\ UNCHANGED <<redis_client, redis, now>>

\* len(_cache) >= CACHE_MAX_SIZE (lines 128, 137)
IsFull_Above(c) == Cardinality(DOMAIN c) > CACHE_MAX_SIZE

IsFull(c) == Cardinality(DOMAIN c) >= CACHE_MAX_SIZE

\* the keys whose expiry has passed (line 131)
ExpiredKeys(ttls, current_time) == { k \in DOMAIN ttls : current_time >= ttls[k] }

\* lines 130-134: both maps without the expired keys
PurgeExpired_PayloadOnly(c, t, current_time) ==
    [c |-> DictPopAll(c, ExpiredKeys(t, current_time)), t |-> t]

PurgeExpired(c, t, current_time) ==
    [c |-> DictPopAll(c, ExpiredKeys(t, current_time)),
     t |-> DictPopAll(t, ExpiredKeys(t, current_time))]

\* the keys min(_cache_ttl.items(), key=lambda x: x[1])[0] can be: min returns the
\* first of the smallest in dict order, which the model leaves open
OldestKeys_Latest(ttls) == { k \in DOMAIN ttls : \A j \in DOMAIN ttls : ttls[k] >= ttls[j] }

OldestKeys(ttls) == { k \in DOMAIN ttls : \A j \in DOMAIN ttls : ttls[k] <= ttls[j] }

\* lines 139-140: both maps without oldest_key
EvictOldest(c, t, oldest_key) ==
    [c |-> DictPop(c, oldest_key), t |-> DictPop(t, oldest_key)]

\* line 137: the store is still full after the purge
StillFull_NoRecheck(full, c) == full

StillFull(full, c) == full /\ IsFull(c)

\* lines 126-145: the write to the in-memory store; oldest_key is the key that
\* line 138 picks when the store is still full after the purge
LocalWrite(key, result, ttl, r, oldest_key) ==
    LET full == IsFull(cache)
        s0 == [c |-> cache, t |-> cache_ttl]
        s1 == IF full THEN PurgeExpired(cache, cache_ttl, now) ELSE s0
        still_full == StillFull(full, s1.c)
        s2 == IF still_full THEN EvictOldest(s1.c, s1.t, oldest_key) ELSE s1
    IN  /\ still_full => oldest_key \in OldestKeys(s1.t)
        /\ ~still_full => oldest_key = key
        /\ cache' = DictSet(s2.c, key, result)
        /\ cache_ttl' = DictSet(s2.t, key, now + ttl)
        /\ call' = [op |-> "set", key |-> key, r |-> r, payload |-> result,
                    exp |-> now + ttl, purged |-> DOMAIN cache \ DOMAIN s1.c,
                    evicted |-> DOMAIN s1.c \ DOMAIN s2.c, raised |-> FALSE]

\* lines 118-124: the write to the in-memory store is reached unless setex
\* succeeded (return at line 122)
WritesLocal_Always(r) == TRUE

WritesLocal(r) == r # "ok"

\* set_cached(book_name, tags, result, ttl) with Redis outcome r
set_cached(q, result, ttl, r) ==
    LET key == get_cache_key(q.name, q.tags)
    IN  /\ r \in RedisOutcomes
        /\ \/ \* the exception of line 120 leaves set_cached
               /\ Propagates(r)
               /\ call' = [op |-> "set", key |-> key, r |-> r, payload |-> result,
                           exp |-> now + ttl, purged |-> {}, evicted |-> {},
                           raised |-> TRUE]
               /\ UNCHANGED <<cache, cache_ttl, redis>>
           \/  /\ Absorbed(r)
               /\ redis' = IF r = "ok" THEN RedisSetex(RedisKey(key), ttl, result)
                                      ELSE redis
               /\ IF WritesLocal(r)
                  THEN \E oldest_key \in DOMAIN cache_ttl \cup {key} :
                           LocalWrite(key, result, ttl, r, oldest_key)
                  ELSE \* lines 119-122
                       /\ call' = [op |-> "set", key |-> key, r |-> r,
                                   payload |-> result, exp |-> now + ttl,
                                   purged |-> {}, evicted |-> {}, raised |-> FALSE]
                       /\ UNCHANGED <<cache, cache_ttl>>
        /\ UNCHANGED <<redis_client, now>>

\* lines 162-163: the in-memory maps after clear_cache, whatever the outcome r
\* of the Redis commands
LocalAfterClear_UnlessFailed(c, r) == IF r = "fail" THEN c ELSE EmptyDict

LocalAfterClear(c, r) == EmptyDict

\* clear_cache() with Redis outcome r
clear_cache(r) ==
    /\ r \in RedisOutcomes
    /\ \/ \* the exception of line 155 leaves clear_cache
           /\ Propagates(r)
           /\ call' = [op |-> "clear", r |-> r, had |-> Cardinality(DOMAIN cache),
                       raised |-> TRUE]
           /\ UNCHANGED <<cache, cache_ttl, redis>>
       \/  /\ Absorbed(r)
           /\ redis' = IF r = "ok" THEN EmptyDict ELSE redis
           /\ cache' = LocalAfterClear(cache, r)
           /\ cache_ttl' = LocalAfterClear(cache_ttl, r)
           /\ call' = [op |-> "clear", r |-> r, had |-> Cardinality(DOMAIN cache),
                       raised |-> FALSE]
    /\ UNCHANGED <<redis_client, now>>

\* get_cache_stats() with Redis outcome r
get_cache_stats(r) ==
    LET stats == [in_memory_size |-> Cardinality(DOMAIN cache),
                  redis_available |-> redis_client]
        \* lines 181-184: len(keys), 0 when the command raises
        redis_size == IF r = "ok" THEN Cardinality(DOMAIN redis) ELSE 0
    IN  /\ r \in RedisOutcomes
        /\ \E raised \in { b \in BOOLEAN : IF b THEN Propagates(r) ELSE Absorbed(r) } :
            call' = [op |-> "stats", r |-> r,
                     ret |-> IF redis_client
                             THEN [in_memory_size |-> stats.in_memory_size,
                                   redis_available |-> stats.redis_available,
                                   redis_size |-> redis_size]
                             ELSE stats,
                     raised |-> raised]
        /\ UNCHANGED <<cache, cache_ttl, redis_client, redis, now>>

\* time passes; the Redis server drops the keys that expire
Tick ==
    /\ now < MaxTime
    /\ now' = now + 1
    /\ redis' = [n \in { m \in DOMAIN redis : now + 1 < redis[m].exp } |-> redis[n]]
    /\ UNCHANGED <<cache, cache_ttl, redis_client, call>>

GetCached == \E q \in CacheQueries : \E r \in RedisOutcomes : get_cached(q, r)

SetCached ==
    \E q \in CacheQueries : \E result \in Payloads : \E ttl \in TTLs :
        \E r \in RedisOutcomes : set_cached(q, result, ttl, r)

ClearCache == \E r \in RedisOutcomes : clear_cache(r)

GetCacheStats == \E r \in RedisOutcomes : get_cache_stats(r)

\* the module as imported (lines 15-40): empty maps, Redis client present or not
CacheInit ==
    /\ cache = EmptyDict
    /\ cache_ttl = EmptyDict
    /\ redis_client \in BOOLEAN
    /\ redis = EmptyDict
    /\ now = 0
    /\ call = [op |-> "import"]

CacheIdle ==
    /\ cache = EmptyDict
    /\ cache_ttl = EmptyDict
    /\ redis_client = FALSE
    /\ redis = EmptyDict
    /\ now = 0
    /\ call = [op |-> "import"]

CacheNext ==
    \/ GetCached /\ UNCHANGED <<kvars, svars, lvars, tvars, evars>>
    \/ SetCached /\ UNCHANGED <<kvars, svars, lvars, tvars, evars>>
    \/ ClearCache /\ UNCHANGED <<kvars, svars, lvars, tvars, evars>>
    \/ GetCacheStats /\ UNCHANGED <<kvars, svars, lvars, tvars, evars>>
    \/ Tick /\ UNCHANGED <<kvars, svars, lvars, tvars, evars>>

(***************************************************************************)
(* Streaming relay.                                                        *)
(***************************************************************************)
\* l[:n]
Take(l, n) == SubSeq(l, 1, IF Len(l) < n THEN Len(l) ELSE n)

\* s.split(sep) for a one-character sep
RECURSIVE SplitAcc(_, _, _)
SplitAcc(s, sep, piece) ==
    IF s = <<>> THEN <<piece>>
    ELSE IF Head(s) = sep THEN <<piece>> \o SplitAcc(Tail(s), sep, <<>>)
    ELSE SplitAcc(Tail(s), sep, Append(piece, Head(s)))

Split(s, sep) == SplitAcc(s, sep, <<>>)

\* [tag.strip().lower() for tag in pieces if tag.strip()] (lines 53-57)
RECURSIVE CleanPieces(_)
CleanPieces(pieces) ==
    IF pieces = <<>> THEN <<>>
    ELSE IF Strip(Head(pieces)) # <<>>
         THEN <<Lower(Strip(Head(pieces)))>> \o CleanPieces(Tail(pieces))
         ELSE CleanPieces(Tail(pieces))

\* tags[:10] keeps this many tags (line 59)
TagLimit == 10

\* lines 51-59: the tags of a response with content (first without line 59)
ParseTags_NoLimit(content) == CleanPieces(Split(Strip(content), ","))

ParseTags(content) == Take(CleanPieces(Split(Strip(content), ",")), TagLimit)

\* what the tag call can return: no choices, no content, empty content,
\* content without a tag, content with two tags, content with eleven tags
TagResponses ==
    { [choices |-> FALSE, content |-> None],
      [choices |-> TRUE, content |-> None],
      [choices |-> TRUE, content |-> <<>>],
      [choices |-> TRUE, content |-> <<",", " ">>],
      [choices |-> TRUE, content |-> <<" ", "B", ",", "a", " ">>],
      [choices |-> TRUE,
       content |-> <<"B", ",", "a", ",", " ", "a", ",", "b", ",", ",", "A", " ", ",", "b",
                     ",", "a", ",", "b", ",", "a", ",", "b", ",", "a">>] }

\* exception classes: those of the openai package the relay names, and the rest
ExcClasses == {"RateLimitError", "APITimeoutError", "APIError", "Exception"}

\* isinstance(e, cls) for e an instance of exactly the class e
IsInstance(e, cls) ==
    \/ e = cls
    \/ cls = "Exception"
    \/ cls = "APIError" /\ e \in {"RateLimitError", "APITimeoutError"}

\* str(e)
ExcText(e) == <<"raw text of ", e>>

\* the fragments of the upstream stream: without choices, without delta, with
\* delta.content None, "" or text, and with delta.text instead of delta.content
Fragments ==
    { [choices |-> FALSE, delta |-> FALSE, attr |-> "content", value |-> None],
      [choices |-> TRUE, delta |-> FALSE, attr |-> "content", value |-> None],
      [choices |-> TRUE, delta |-> TRUE, attr |-> "content", value |-> None],
      [choices |-> TRUE, delta |-> TRUE, attr |-> "content", value |-> <<>>],
      [choices |-> TRUE, delta |-> TRUE, attr |-> "content", value |-> <<"A">>],
      [choices |-> TRUE, delta |-> TRUE, attr |-> "content", value |-> <<"B">>],
      [choices |-> TRUE, delta |-> TRUE, attr |-> "text", value |-> <<"C">>] }

\* the tag lists a request carries
RequestTags == { <<>>, <<<<"b">>>> }

\* the JSON objects of the frames f"data: {json.dumps(obj)}\n\n"
TagsEvent(tag_list) == [tags |-> tag_list]
ChunkEvent(content, text) == [chunk |-> content, text |-> text]
DoneEvent(text) == [done |-> TRUE, text |-> text]
ErrorEvent(message) == [error |-> message]

IsTags(e) == "tags" \in DOMAIN e
IsChunk(e) == "chunk" \in DOMAIN e
IsDone(e) == "done" \in DOMAIN e
IsError(e) == "error" \in DOMAIN e

\* lines 96-113, 182-186: the message for an exception raised by the generation call
\* (first with the handlers tried in another order, then with the text of the
\* exception in every message)
GenerationErrorMessage_ApiErrorFirst(e) ==
    IF IsInstance(e, "APIError")
    THEN <<"Error communicating with recommendation service. Please try again later.">>
    ELSE IF IsInstance(e, "RateLimitError")
    THEN <<"API rate limit exceeded. Please try again later.">>
    ELSE IF IsInstance(e, "APITimeoutError")
    THEN <<"Request timed out. Please try again.">>
    ELSE <<"An unexpected error occurred. Please try again later.">>

GenerationErrorMessage_Raw(e) == <<"Error: ">> \o ExcText(e)

GenerationErrorMessage(e) ==
    IF IsInstance(e, "RateLimitError")
    THEN <<"API rate limit exceeded. Please try again later.">>
    ELSE IF IsInstance(e, "APITimeoutError")
    THEN <<"Request timed out. Please try again.">>
    ELSE IF IsInstance(e, "APIError")
    THEN <<"Error communicating with recommendation service. Please try again later.">>
    ELSE <<"An unexpected error occurred. Please try again later.">>

\* line 66: except Exception catches the exception e of the tag call
CatchesTagError_ApiOnly(e) == IsInstance(e, "APIError")

CatchesTagError(e) == IsInstance(e, "Exception")

\* lines 151-155: the message for an exception raised while iterating
StreamErrorMessage(e) == <<"Error during streaming: ">> \o ExcText(e)

\* lines 151-156: the frames yielded when the iteration raises
IterationErrorEvents_Silent(e) == <<>>

IterationErrorEvents_NoReturn(e) ==
    <<[error |-> <<"Error during streaming: ">> \o ExcText(e)],
      [done |-> TRUE, text |-> accumulated_text]>>

IterationErrorEvents(e) == <<ErrorEvent(StreamErrorMessage(e))>>

\* lines 163-173: the messages for a stream that ended without content
EmptyStreamMessage_Same(count) ==
    <<"Received ", count,
      " chunks but no content. The model may have returned an empty response.">>

EmptyStreamMessage(count) ==
    IF count = 0
    THEN <<"No chunks received from API. Model '", "gpt-4o-mini",
           "' may not exist or may not support streaming. Please check the model name and try again.">>
    ELSE <<"Received ", count,
           " chunks but no content. The model may have returned an empty response.">>

\* line 142: accumulated_text += content
Accumulate_Replace(text, content) == content

Accumulate(text, content) == text \o content

\* lines 161-178: the frames yielded once the iteration has ended
CompletionEvents_NoReturn(text, count) ==
    (IF text = <<>> THEN <<ErrorEvent(EmptyStreamMessage(count))>> ELSE <<>>)
        \o <<DoneEvent(text)>>

CompletionEvents(text, count) ==
    IF text = <<>>
    THEN <<ErrorEvent(EmptyStreamMessage(count))>>
    ELSE <<DoneEvent(text)>>

\* the generator is suspended: not started, at a yield, or in asyncio.sleep
Suspended == pc \in {"start", "yield_tags", "yield_chunk", "sleep", "yield_error", "yield_done"}

\* the run is over: the generator returned, or a cancellation left it
Over == pc \in {"ended", "cancelled"}

\* lines 28-33: the generator starts; sanitize_for_prompt, then the tag call or
\* the generation call (first as if line 33 were not there)
Start_AlwaysResolves ==
    /\ pc = "start"
    /\ pc' = "tags_call"
    /\ UNCHANGED <<request_tags, tags, accumulated_text, chunk_count, events, consumed,
                   disconnected,
                   upstream>>

Start ==
    /\ pc = "start"
    /\ pc' = IF tags = <<>> THEN "tags_call" ELSE "gen_call"
    /\ UNCHANGED <<request_tags, tags, accumulated_text, chunk_count, events, consumed,
                   disconnected,
                   upstream>>

\* lines 34-63: the tag call returns a response
TagsReturn ==
    \E resp \in TagResponses :
        /\ pc = "tags_call"
        /\ IF resp.choices /\ Truthy(resp.content)
           THEN /\ tags' = ParseTags(resp.content)
                /\ events' = Append(events, TagsEvent(ParseTags(resp.content)))
                /\ pc' = "yield_tags"
                /\ upstream' = [upstream EXCEPT !.tags = "usable", !.content = resp.content]
           ELSE /\ pc' = "gen_call"
                /\ upstream' = [upstream EXCEPT !.tags = "unusable", !.content = resp.content]
                /\ UNCHANGED <<tags, events>>
        /\ UNCHANGED <<request_tags, accumulated_text, chunk_count, consumed, disconnected>>

\* lines 66-69, 182-186: the tag call raises; the handler of line 66 catches
\* the exception, or else the catch-all handler of line 182
TagsRaise ==
    \E e \in ExcClasses :
        /\ pc = "tags_call"
        /\ upstream' = [upstream EXCEPT !.tags = "raised"]
        /\ IF CatchesTagError(e)
           THEN /\ tags' = <<>>
                /\ pc' = "gen_call"
                /\ UNCHANGED events
           ELSE /\ events' = Append(events, ErrorEvent(GenerationErrorMessage("Exception")))
                /\ pc' = "yield_error"
                /\ UNCHANGED tags
        /\ UNCHANGED <<request_tags, accumulated_text, chunk_count, consumed, disconnected>>

\* lines 63-72: the generator is resumed after the tags frame
ResumeAfterTags ==
    /\ pc = "yield_tags"
    /\ pc' = "gen_call"
    /\ UNCHANGED <<request_tags, tags, accumulated_text, chunk_count, events, consumed,
                   disconnected,
                   upstream>>

\* lines 75-95, 116-117: the generation call returns the stream
GenerationReturn ==
    /\ pc = "gen_call"
    /\ accumulated_text' = <<>>
    /\ chunk_count' = 0
    /\ pc' = "next"
    /\ upstream' = [upstream EXCEPT !.gen = "returned"]
    /\ UNCHANGED <<request_tags, tags, events, consumed, disconnected>>

\* lines 96-113, 182-186: the generation call raises (first as if the handler of
\* line 102 called again after a timeout)
GenerationRaise_Retry ==
    \E e \in ExcClasses :
        /\ pc = "gen_call"
        /\ IF e = "APITimeoutError"
           THEN /\ pc' = "gen_call"
                /\ UNCHANGED events
           ELSE /\ events' = Append(events, ErrorEvent(GenerationErrorMessage(e)))
                /\ pc' = "yield_error"
        /\ upstream' = [upstream EXCEPT !.gen = e]
        /\ UNCHANGED <<request_tags, tags, accumulated_text, chunk_count, consumed,
                       disconnected>>

GenerationRaise ==
    \E e \in ExcClasses :
        /\ pc = "gen_call"
        /\ events' = Append(events, ErrorEvent(GenerationErrorMessage(e)))
        /\ pc' = "yield_error"
        /\ upstream' = [upstream EXCEPT !.gen = e]
        /\ UNCHANGED <<request_tags, tags, accumulated_text, chunk_count, consumed,
                       disconnected>>

\* lines 120-150: the stream delivers the fragment f
NextFragment ==
    \E f \in Fragments :
        /\ pc = "next"
        /\ Len(consumed) < MaxFragments
        /\ consumed' = Append(consumed, f)
        /\ chunk_count' = chunk_count + 1
        /\ IF ~f.choices \/ ~f.delta
           THEN \* continue
                /\ pc' = "next"
                /\ UNCHANGED <<accumulated_text, events>>
           ELSE IF Truthy(f.value)
           THEN /\ accumulated_text' = Accumulate(accumulated_text, f.value)
                /\ events' = Append(events,
                                    ChunkEvent(f.value, Accumulate(accumulated_text, f.value)))
                /\ pc' = "yield_chunk"
           ELSE /\ pc' = "sleep"
                /\ UNCHANGED <<accumulated_text, events>>
        /\ UNCHANGED <<request_tags, tags, disconnected,
                   upstream>>

\* lines 145-150: the generator is resumed after a chunk frame and sleeps
ResumeAfterChunk ==
    /\ pc = "yield_chunk"
    /\ pc' = "sleep"
    /\ UNCHANGED <<request_tags, tags, accumulated_text, chunk_count, events, consumed,
                   disconnected,
                   upstream>>

\* line 150: the sleep is over, the loop asks for the next fragment
ResumeAfterSleep ==
    /\ pc = "sleep"
    /\ pc' = "next"
    /\ UNCHANGED <<request_tags, tags, accumulated_text, chunk_count, events, consumed,
                   disconnected,
                   upstream>>

\* lines 151-156: the iteration raises
IterationRaise ==
    \E e \in ExcClasses :
        /\ pc = "next"
        /\ events' = events \o IterationErrorEvents(e)
        /\ pc' = "yield_error"
        /\ upstream' = [upstream EXCEPT !.iter = e]
        /\ UNCHANGED <<request_tags, tags, accumulated_text, chunk_count, consumed,
                       disconnected>>

\* lines 158-178: the iteration ends
IterationEnds ==
    /\ pc = "next"
    /\ events' = events \o CompletionEvents(accumulated_text, chunk_count)
    /\ pc' = IF accumulated_text = <<>> THEN "yield_error" ELSE "yield_done"
    /\ upstream' = [upstream EXCEPT !.iter = "ended"]
    /\ UNCHANGED <<request_tags, tags, accumulated_text, chunk_count, consumed,
                   disconnected>>

\* the generator is resumed after its last frame and returns (lines 101, 107, 113,
\* 156, 168, 174, 180, 186)
Return ==
    /\ pc \in {"yield_error", "yield_done"}
    /\ pc' = "ended"
    /\ UNCHANGED <<request_tags, tags, accumulated_text, chunk_count, events, consumed,
                   disconnected,
                   upstream>>

\* the client goes away
ClientDisconnect ==
    /\ ~Over
    /\ ~disconnected
    /\ disconnected' = TRUE
    /\ UNCHANGED <<pc, request_tags, tags, accumulated_text, chunk_count, events, consumed,
                   upstream>>

\* the server cancels the response task of a client that has gone away: the
\* generator, suspended, is left by a CancelledError or GeneratorExit, which no
\* "except Exception" of lines 66, 151 and 182 catches
Cancel ==
    /\ disconnected
    /\ Suspended
    /\ pc' = "cancelled"
    /\ UNCHANGED <<request_tags, tags, accumulated_text, chunk_count, events, consumed,
                   disconnected,
                   upstream>>

StreamInit ==
    /\ pc = "start"
    /\ request_tags \in RequestTags
    /\ tags = request_tags
    /\ accumulated_text = <<>>
    /\ chunk_count = 0
    /\ events = <<>>
    /\ consumed = <<>>
    /\ disconnected = FALSE
    /\ upstream = [tags |-> "none", content |-> None, gen |-> "none", iter |-> "none"]

StreamIdle ==
    /\ pc = "start"
    /\ request_tags = <<>>
    /\ tags = <<>>
    /\ accumulated_text = <<>>
    /\ chunk_count = 0
    /\ events = <<>>
    /\ consumed = <<>>
    /\ disconnected = FALSE
    /\ upstream = [tags |-> "none", content |-> None, gen |-> "none", iter |-> "none"]

StreamNext ==
    \/ Start /\ UNCHANGED <<kvars, cvars, lvars, tvars, evars>>
    \/ TagsReturn /\ UNCHANGED <<kvars, cvars, lvars, tvars, evars>>
    \/ TagsRaise /\ UNCHANGED <<kvars, cvars, lvars, tvars, evars>>
    \/ ResumeAfterTags /\ UNCHANGED <<kvars, cvars, lvars, tvars, evars>>
    \/ GenerationReturn /\ UNCHANGED <<kvars, cvars, lvars, tvars, evars>>
    \/ GenerationRaise /\ UNCHANGED <<kvars, cvars, lvars, tvars, evars>>
    \/ NextFragment /\ UNCHANGED <<kvars, cvars, lvars, tvars, evars>>
    \/ ResumeAfterChunk /\ UNCHANGED <<kvars, cvars, lvars, tvars, evars>>
    \/ ResumeAfterSleep /\ UNCHANGED <<kvars, cvars, lvars, tvars, evars>>
    \/ IterationRaise /\ UNCHANGED <<kvars, cvars, lvars, tvars, evars>>
    \/ IterationEnds /\ UNCHANGED <<kvars, cvars, lvars, tvars, evars>>
    \/ Return /\ UNCHANGED <<kvars, cvars, lvars, tvars, evars>>
    \/ ClientDisconnect /\ UNCHANGED <<kvars, cvars, lvars, tvars, evars>>
    \/ Cancel /\ UNCHANGED <<kvars, cvars, lvars, tvars, evars>>

(***************************************************************************)
(* Error classifier: APIErrorHandler of services/error_handler.py.         *)
(***************************************************************************)
\* config.py, line 21
OPENAI_MODEL == "gpt-4o-mini"

\* _format_sse_error: the JSON object of the frame f"data: {json.dumps(...)}\n\n"
format_sse_error(message) == [error |-> message]

\* handle_openai_error (first with the isinstance tests in another order)
handle_openai_error_ApiErrorFirst(error) ==
    IF IsInstance(error, "APIError")
    THEN format_sse_error(<<"Error communicating with recommendation service. Please try again later.">>)
    ELSE IF IsInstance(error, "RateLimitError")
    THEN format_sse_error(<<"API rate limit exceeded. Please try again later.">>)
    ELSE IF IsInstance(error, "APITimeoutError")
    THEN format_sse_error(<<"Request timed out. Please try again.">>)
    ELSE format_sse_error(<<"An unexpected error occurred. Please try again later.">>)

handle_openai_error(error) ==
    IF IsInstance(error, "RateLimitError")
    THEN format_sse_error(<<"API rate limit exceeded. Please try again later.">>)
    ELSE IF IsInstance(error, "APITimeoutError")
    THEN format_sse_error(<<"Request timed out. Please try again.">>)
    ELSE IF IsInstance(error, "APIError")
    THEN format_sse_error(<<"Error communicating with recommendation service. Please try again later.">>)
    ELSE format_sse_error(<<"An unexpected error occurred. Please try again later.">>)

\* handle_stream_error
handle_stream_error(error) ==
    format_sse_error(<<"Error during streaming: ">> \o ExcText(error))

\* handle_empty_stream: each message is an f-string followed by a literal
handle_empty_stream(count) ==
    IF count = 0
    THEN format_sse_error(<<"No chunks received from API. Model '", OPENAI_MODEL,
                            "' may not exist "
                                \o "or may not support streaming. Please check the model name and try again.">>)
    ELSE format_sse_error(<<"Received ", count,
                            " chunks but no content. "
                                \o "The model may have returned an empty response.">>)

\* handle_unexpected_error
handle_unexpected_error(error, context) ==
    format_sse_error(<<"An unexpected error occurred. Please try again later.">>)

(***************************************************************************)
(* The event loop: the generator of one request and another request task.  *)
(***************************************************************************)
\* the thread of the event loop is free: the generator is suspended or over.
\* client.chat.completions.create (lines 37, 95) and the iteration of the
\* stream (line 120) are calls of the synchronous client of
\* services/openai_service.py: they keep the thread until they return or raise
LoopFree == Suspended \/ Over

\* another request task takes a step on the thread of the event loop
OtherTask ==
    /\ LoopFree
    /\ other < MaxOtherSteps
    /\ other' = other + 1
    /\ UNCHANGED left_at

\* the client goes away; where the generator stands is recorded
Leave ==
    /\ ClientDisconnect
    /\ left_at' = [pc |-> pc, consumed |-> Len(consumed)]
    /\ UNCHANGED other

LoopIdle ==
    /\ left_at = [pc |-> "none", consumed |-> 0]
    /\ other = 0

LoopNext ==
    \/ Start /\ UNCHANGED <<kvars, cvars, lvars, tvars, evars>>
    \/ TagsReturn /\ UNCHANGED <<kvars, cvars, lvars, tvars, evars>>
    \/ TagsRaise /\ UNCHANGED <<kvars, cvars, lvars, tvars, evars>>
    \/ ResumeAfterTags /\ UNCHANGED <<kvars, cvars, lvars, tvars, evars>>
    \/ GenerationReturn /\ UNCHANGED <<kvars, cvars, lvars, tvars, evars>>
    \/ GenerationRaise /\ UNCHANGED <<kvars, cvars, lvars, tvars, evars>>
    \/ NextFragment /\ UNCHANGED <<kvars, cvars, lvars, tvars, evars>>
    \/ ResumeAfterChunk /\ UNCHANGED <<kvars, cvars, lvars, tvars, evars>>
    \/ ResumeAfterSleep /\ UNCHANGED <<kvars, cvars, lvars, tvars, evars>>
    \/ IterationRaise /\ UNCHANGED <<kvars, cvars, lvars, tvars, evars>>
    \/ IterationEnds /\ UNCHANGED <<kvars, cvars, lvars, tvars, evars>>
    \/ Return /\ UNCHANGED <<kvars, cvars, lvars, tvars, evars>>
    \/ Cancel /\ UNCHANGED <<kvars, cvars, lvars, tvars, evars>>
    \/ Leave /\ UNCHANGED <<kvars, cvars, tvars, evars>>
    \/ OtherTask /\ UNCHANGED <<kvars, cvars, svars, tvars, evars>>

(***************************************************************************)
(* The request tasks that call the cache: get_cached and set_cached line   *)
(* by line on the in-memory store (no Redis client).                       *)
(***************************************************************************)
Tasks == 1..NumTasks

\* the line is an await, where the event loop may run another task:
\* get_cached and set_cached are plain functions (def, lines 61 and 101) and
\* none of their lines awaits
Awaits_EveryLine(line) == TRUE

Awaits(line) == FALSE

\* the task that holds the thread once task t has moved to line
Holder(t, line) == IF line \in {"idle", "failed"} \/ Awaits(line) THEN 0 ELSE t

\* a task outside the cache functions: it has no local variables
NoCall ==
    [pc |-> "idle", key |-> None, result |-> None, ttl |-> 0, expired_keys |-> {},
     k |-> None]

\* task t moves to line; a return ends the life of its local variables
Goto(t, line) ==
    /\ task' = [task EXCEPT ![t] = IF line = "idle" THEN NoCall ELSE [@ EXCEPT !.pc = line]]
    /\ current' = Holder(t, line)

\* task t stands at line and has the thread
At(t, line) == task[t].pc = line /\ current \in {0, t}

\* lines 73-75: a task calls get_cached
TGetCached(t) ==
    \E q \in CacheQueries :
        /\ At(t, "idle")
        /\ task' = [task EXCEPT ![t].pc = "get_88",
                                ![t].key = get_cache_key(q.name, q.tags)]
        /\ current' = Holder(t, "get_88")
        /\ UNCHANGED <<cache, cache_ttl>>

\* line 88: if key in _cache; line 98: return None
TGet88(t) ==
    /\ At(t, "get_88")
    /\ Goto(t, IF task[t].key \in DOMAIN cache THEN "get_89" ELSE "idle")
    /\ UNCHANGED <<cache, cache_ttl>>

\* line 89: if time.time() < _cache_ttl.get(key, 0)
TGet89(t) ==
    /\ At(t, "get_89")
    /\ Goto(t, IF IsLive(task[t].key) THEN "get_91" ELSE "get_94")
    /\ UNCHANGED <<cache, cache_ttl>>

\* line 91: return _cache[key], a KeyError without the key
TGet91(t) ==
    /\ At(t, "get_91")
    /\ Goto(t, IF task[t].key \in DOMAIN cache THEN "idle" ELSE "failed")
    /\ UNCHANGED <<cache, cache_ttl>>

\* line 94: del _cache[key], a KeyError without the key
TGet94(t) ==
    /\ At(t, "get_94")
    /\ IF task[t].key \in DOMAIN cache
       THEN /\ cache' = DictPop(cache, task[t].key)
            /\ Goto(t, "get_95")
       ELSE /\ Goto(t, "failed")
            /\ UNCHANGED cache
    /\ UNCHANGED cache_ttl

\* line 95: del _cache_ttl[key], a KeyError without the key; line 98: return None
TGet95(t) ==
    /\ At(t, "get_95")
    /\ IF task[t].key \in DOMAIN cache_ttl
       THEN /\ cache_ttl' = DictPop(cache_ttl, task[t].key)
            /\ Goto(t, "idle")
       ELSE /\ Goto(t, "failed")
            /\ UNCHANGED cache_ttl
    /\ UNCHANGED cache

\* lines 110-114: a task calls set_cached
TSetCached(t) ==
    \E q \in CacheQueries : \E result \in Payloads : \E ttl \in TTLs :
        /\ At(t, "idle")
        /\ task' = [task EXCEPT ![t].pc = "set_128",
                                ![t].key = get_cache_key(q.name, q.tags),
                                ![t].result = result,
                                ![t].ttl = ttl]
        /\ current' = Holder(t, "set_128")
        /\ UNCHANGED <<cache, cache_ttl>>

\* line 128: if len(_cache) >= CACHE_MAX_SIZE
TSet128(t) ==
    /\ At(t, "set_128")
    /\ Goto(t, IF IsFull(cache) THEN "set_131" ELSE "set_143")
    /\ UNCHANGED <<cache, cache_ttl>>

\* lines 130-132: expired_keys, and the for loop over it
TSet131(t) ==
    /\ At(t, "set_131")
    /\ task' = [task EXCEPT ![t].expired_keys = ExpiredKeys(cache_ttl, now),
                            ![t].pc = IF ExpiredKeys(cache_ttl, now) = {}
                                      THEN "set_137" ELSE "set_133"]
    /\ current' = Holder(t, IF ExpiredKeys(cache_ttl, now) = {} THEN "set_137" ELSE "set_133")
    /\ UNCHANGED <<cache, cache_ttl>>

\* lines 132-133: the next k of expired_keys; _cache.pop(k, None)
TSet133(t) ==
    \E k \in task[t].expired_keys :
        /\ At(t, "set_133")
        /\ cache' = DictPop(cache, k)
        /\ task' = [task EXCEPT ![t].k = k,
                                ![t].expired_keys = @ \ {k},
                                ![t].pc = "set_134"]
        /\ current' = Holder(t, "set_134")
        /\ UNCHANGED cache_ttl

\* line 134: _cache_ttl.pop(k, None)
TSet134(t) ==
    /\ At(t, "set_134")
    /\ cache_ttl' = DictPop(cache_ttl, task[t].k)
    /\ Goto(t, IF task[t].expired_keys = {} THEN "set_137" ELSE "set_133")
    /\ UNCHANGED cache

\* line 137: if len(_cache) >= CACHE_MAX_SIZE
TSet137(t) ==
    /\ At(t, "set_137")
    /\ Goto(t, IF IsFull(cache) THEN "set_138" ELSE "set_143")
    /\ UNCHANGED <<cache, cache_ttl>>

\* line 138: oldest_key = min(_cache_ttl.items(), ...)[0], a ValueError when
\* _cache_ttl is empty
TSet138(t) ==
    /\ At(t, "set_138")
    /\ IF DOMAIN cache_ttl = {}
       THEN Goto(t, "failed")
       ELSE \E oldest_key \in OldestKeys(cache_ttl) :
                /\ task' = [task EXCEPT ![t].k = oldest_key, ![t].pc = "set_139"]
                /\ current' = Holder(t, "set_139")
    /\ UNCHANGED <<cache, cache_ttl>>

\* line 139: _cache.pop(oldest_key, None)
TSet139(t) ==
    /\ At(t, "set_139")
    /\ cache' = DictPop(cache, task[t].k)
    /\ Goto(t, "set_140")
    /\ UNCHANGED cache_ttl

\* line 140: _cache_ttl.pop(oldest_key, None)
TSet140(t) ==
    /\ At(t, "set_140")
    /\ cache_ttl' = DictPop(cache_ttl, task[t].k)
    /\ Goto(t, "set_143")
    /\ UNCHANGED cache

\* line 143: _cache[key] = result
TSet143(t) ==
    /\ At(t, "set_143")
    /\ cache' = DictSet(cache, task[t].key, task[t].result)
    /\ Goto(t, "set_144")
    /\ UNCHANGED cache_ttl

\* line 144: _cache_ttl[key] = time.time() + ttl
TSet144(t) ==
    /\ At(t, "set_144")
    /\ cache_ttl' = DictSet(cache_ttl, task[t].key, now + task[t].ttl)
    /\ Goto(t, "idle")
    /\ UNCHANGED cache

\* time passes
TTick ==
    /\ Tick
    /\ UNCHANGED tvars

TaskIdle ==
    /\ task = [t \in Tasks |-> NoCall]
    /\ current = 0

TaskNext ==
    \/ \E t \in Tasks : TGetCached(t) /\ UNCHANGED <<kvars, svars, lvars, evars, now, redis_client, redis, call>>
    \/ \E t \in Tasks : TGet88(t) /\ UNCHANGED <<kvars, svars, lvars, evars, now, redis_client, redis, call>>
    \/ \E t \in Tasks : TGet89(t) /\ UNCHANGED <<kvars, svars, lvars, evars, now, redis_client, redis, call>>
    \/ \E t \in Tasks : TGet91(t) /\ UNCHANGED <<kvars, svars, lvars, evars, now, redis_client, redis, call>>
    \/ \E t \in Tasks : TGet94(t) /\ UNCHANGED <<kvars, svars, lvars, evars, now, redis_client, redis, call>>
    \/ \E t \in Tasks : TGet95(t) /\ UNCHANGED <<kvars, svars, lvars, evars, now, redis_client, redis, call>>
    \/ \E t \in Tasks : TSetCached(t) /\ UNCHANGED <<kvars, svars, lvars, evars, now, redis_client, redis, call>>
    \/ \E t \in Tasks : TSet128(t) /\ UNCHANGED <<kvars, svars, lvars, evars, now, redis_client, redis, call>>
    \/ \E t \in Tasks : TSet131(t) /\ UNCHANGED <<kvars, svars, lvars, evars, now, redis_client, redis, call>>
    \/ \E t \in Tasks : TSet133(t) /\ UNCHANGED <<kvars, svars, lvars, evars, now, redis_client, redis, call>>
    \/ \E t \in Tasks : TSet134(t) /\ UNCHANGED <<kvars, svars, lvars, evars, now, redis_client, redis, call>>
    \/ \E t \in Tasks : TSet137(t) /\ UNCHANGED <<kvars, svars, lvars, evars, now, redis_client, redis, call>>
    \/ \E t \in Tasks : TSet138(t) /\ UNCHANGED <<kvars, svars, lvars, evars, now, redis_client, redis, call>>
    \/ \E t \in Tasks : TSet139(t) /\ UNCHANGED <<kvars, svars, lvars, evars, now, redis_client, redis, call>>
    \/ \E t \in Tasks : TSet140(t) /\ UNCHANGED <<kvars, svars, lvars, evars, now, redis_client, redis, call>>
    \/ \E t \in Tasks : TSet143(t) /\ UNCHANGED <<kvars, svars, lvars, evars, now, redis_client, redis, call>>
    \/ \E t \in Tasks : TSet144(t) /\ UNCHANGED <<kvars, svars, lvars, evars, now, redis_client, redis, call>>
    \/ TTick /\ UNCHANGED <<kvars, svars, lvars, evars>>

(***************************************************************************)
(* Request validation: BookRequest.validate_tags of models.py.             *)
(***************************************************************************)
MaxTagLength == 50  \* "if len(cleaned) > 50"
MaxTagCount == 20   \* "if len(validated_tags) > 20"

\* any(ord(c) < 32 for c in cleaned)
HasControl(s) == \E i \in 1..Len(s) : Ord(s[i]) < 32

\* the for loop over v, with validated_tags and seen as they stand
RECURSIVE ValidateLoop(_, _, _)
ValidateLoop(v, validated_tags, seen) ==
    IF v = <<>> THEN validated_tags
    ELSE LET tag == Head(v)
             cleaned == Lower(Strip(tag))
         IN  IF tag = <<>> THEN ValidateLoop(Tail(v), validated_tags, seen)
             ELSE IF Len(cleaned) > MaxTagLength
                  THEN ValidateLoop(Tail(v), validated_tags, seen)
             ELSE IF Len(cleaned) < 1
                  THEN ValidateLoop(Tail(v), validated_tags, seen)
             ELSE IF HasControl(cleaned)
                  THEN ValidateLoop(Tail(v), validated_tags, seen)
             ELSE IF cleaned \notin seen
                  THEN ValidateLoop(Tail(v), Append(validated_tags, cleaned),
                                    seen \cup {cleaned})
             ELSE ValidateLoop(Tail(v), validated_tags, seen)

\* validated_tags[:20] when there are more than 20 (first as if the list were
\* returned as the loop left it)
LimitTags_NoLimit(validated_tags) == validated_tags

LimitTags(validated_tags) ==
    IF Len(validated_tags) > MaxTagCount
    THEN SubSeq(validated_tags, 1, MaxTagCount)
    ELSE validated_tags

validate_tags(v) ==
    IF v = <<>> THEN <<>>
    ELSE LimitTags(ValidateLoop(v, <<>>, {}))

\* n times "a"
Rep(n) == [i \in 1..n |-> "a"]

\* the lists a request starts from: n distinct valid tags
BaseList(n) == [i \in 1..n |-> Rep(i)]

BaseSizes == {0, 1, MaxTagCount - 1, MaxTagCount, MaxTagCount + 1}

\* the tags a request adds to its list: empty, blank, one that repeats "a" when
\* cleaned, one with a control character inside, one too long, one of the
\* greatest length when cleaned, one more
NewTags ==
    { <<>>, <<" ">>, <<" ", "A", "\t">>, <<"a", "\t", "b">>, Rep(MaxTagLength + 1),
      <<" ">> \o Rep(MaxTagLength) \o <<" ">>, <<"B">> }

\* the request is validated with the list l
Validate(l) ==
    /\ vIn' = l
    /\ vOut' = validate_tags(l)
    /\ vEdits' = vEdits + 1

VPrepend ==
    /\ vEdits < MaxEdits
    /\ \E t \in NewTags : Validate(<<t>> \o vIn)

VAppend ==
    /\ vEdits < MaxEdits
    /\ \E t \in NewTags : Validate(Append(vIn, t))

ValidateInit ==
    /\ vIn \in {BaseList(n) : n \in BaseSizes}
    /\ vOut = validate_tags(vIn)
    /\ vEdits = 0

ValidateIdle ==
    /\ vIn = <<>>
    /\ vOut = <<>>
    /\ vEdits = 0

ValidateNext ==
    \/ VPrepend /\ UNCHANGED <<kvars, cvars, svars, lvars, tvars, gvars, dvars, hvars, mvars>>
    \/ VAppend /\ UNCHANGED <<kvars, cvars, svars, lvars, tvars, gvars, dvars, hvars, mvars>>

(***************************************************************************)
(* Tags endpoint: get_tags of routers/tags.py with the handlers of         *)
(* services/error_handler.py it calls.                                     *)
(***************************************************************************)
\* the exception classes the endpoint names, and the rest
EndpointExcClasses == ExcClasses \cup {"ValueError"}

\* TagsResponse(tags=tags), as the 200 response it becomes
TagsResponse(tag_list) == [status |-> 200, tags |-> tag_list]

\* HTTPException(status_code=..., detail=...), as the response it becomes
HTTPException(status_code, detail) == [status |-> status_code, detail |-> detail]

\* error_handler.py: each returns ([], True)
handle_openai_error_for_tags(error) == [tags |-> <<>>, error |-> TRUE]

handle_invalid_response(context) == [tags |-> <<>>, error |-> TRUE]

handle_unexpected_error_for_tags(error, context) == [tags |-> <<>>, error |-> TRUE]

\* tags[:10] keeps this many tags (tags.py line 73)
EndpointTagLimit == 10

\* lines 64-73: the tags of a response with content
EndpointTags(content) ==
    Take(CleanPieces(Split(Strip(content), ",")), EndpointTagLimit)

\* lines 58-76: the call returned response
GetTagsReturned(response) ==
    IF ~response.choices \/ ~Truthy(response.content)
    THEN TagsResponse(handle_invalid_response("tags").tags)
    ELSE TagsResponse(EndpointTags(response.content))

\* line 52: the classes the inner handler catches
CatchesUpstream(e) ==
    \/ IsInstance(e, "RateLimitError")
    \/ IsInstance(e, "APITimeoutError")
    \/ IsInstance(e, "APIError")

\* lines 80-82: the outer handler for ValueError
IsValidationError(e) == IsInstance(e, "ValueError")

\* lines 52-55 and 78-86: the call raised e (an HTTPException is raised again
\* as it is: 500 stands for the status it carries)
GetTagsRaised(e) ==
    IF CatchesUpstream(e)
    THEN TagsResponse(handle_openai_error_for_tags(e).tags)
    ELSE IF IsInstance(e, "HTTPException")
    THEN HTTPException(500, ExcText(e))
    ELSE IF IsValidationError(e)
    THEN HTTPException(400, ExcText(e))
    ELSE TagsResponse(handle_unexpected_error_for_tags(e, "fetching tags").tags)

\* one request: the upstream call returns a response
GetTagsReturn ==
    /\ Len(served) < MaxRequests
    /\ \E response \in TagResponses :
          served' = Append(served, [upstream |-> "returned",
                                    content |-> response.content,
                                    usable |-> response.choices /\ Truthy(response.content),
                                    result |-> GetTagsReturned(response)])

\* one request: the upstream call raises
GetTagsRaise ==
    /\ Len(served) < MaxRequests
    /\ \E e \in EndpointExcClasses :
          served' = Append(served, [upstream |-> e,
                                    content |-> None,
                                    usable |-> FALSE,
                                    result |-> GetTagsRaised(e)])

TagsInit == served = <<>>

TagsIdle == served = <<>>

TagsNext ==
    \/ GetTagsReturn /\ UNCHANGED <<kvars, cvars, svars, lvars, tvars, vvars, dvars, hvars, mvars>>
    \/ GetTagsRaise /\ UNCHANGED <<kvars, cvars, svars, lvars, tvars, vvars, dvars, hvars, mvars>>

(***************************************************************************)
(* Persistence: services/database_service.py on its SQLite file.  Every    *)
(* call opens its own connection; what a call did not commit is gone when  *)
(* the connection closes.  The column created_at is left out.              *)
(***************************************************************************)
\* json.dumps(s) for a str without characters to escape
JsonStr(s) == <<"\"">> \o s \o <<"\"">>

RECURSIVE JoinJson(_)
JoinJson(l) ==
    IF l = <<>> THEN <<>>
    ELSE IF Len(l) = 1 THEN JsonStr(l[1])
    ELSE JsonStr(l[1]) \o <<",", " ">> \o JoinJson(Tail(l))

\* json.dumps(l) for a list of str
JsonDumps(l) == <<"[">> \o JoinJson(l) \o <<"]">>

\* json.dumps(tags) if tags else None (lines 94 and 144)
TagsJson(tag_list) == IF tag_list # <<>> THEN JsonDumps(tag_list) ELSE None

\* the SQL comparison column = ? : never true of NULL
SqlEquals(column, parameter) ==
    column # None /\ parameter # None /\ column = parameter

\* where the database can fail during a call that writes, during a call that
\* reads, and the sqlite3 exception raised
DbFailures == {"connect", "query", "commit"}

ReadFailures == {"connect", "query"}

DbError(failure) ==
    CASE failure = "connect" -> "OperationalError"
      [] failure = "query" -> "DatabaseError"
      [] failure = "commit" -> "OperationalError"

\* "except Exception" (first as if it named sqlite3.OperationalError)
DbCatches_OperationalOnly(e) == e = "OperationalError"

DbCatches(e) == TRUE

\* the record of a call that met the failure
Failed(op, failure, default) ==
    [op |-> op, failure |-> failure, raised |-> ~DbCatches(DbError(failure)),
     result |-> IF DbCatches(DbError(failure)) THEN default ELSE None]

\* the record of a call that met no failure
Succeeded(op, result) ==
    [op |-> op, failure |-> "none", raised |-> FALSE, result |-> result]

\* lines 87-88
Truncate(recommendations_text) ==
    IF Len(recommendations_text) > DB_MAX_RECOMMENDATION_LENGTH
    THEN SubSeq(recommendations_text, 1, DB_MAX_RECOMMENDATION_LENGTH)
    ELSE recommendations_text

\* lines 97-100: the ids of the rows the SELECT finds
Selected(book_name, tags_json) ==
    { i \in 1..Len(recommendations) :
        /\ recommendations[i].book_name = book_name
        /\ SqlEquals(recommendations[i].tags, tags_json) }

\* lines 102-118: the table after the UPDATE of the row fetchone() returned, or
\* after the INSERT, is committed
Saved(book_name, tags_json, recommendations_text) ==
    LET found == Selected(book_name, tags_json)
        existing == CHOOSE i \in found : \A j \in found : i <= j
    IN  IF found # {}
        THEN [recommendations EXCEPT
                 ![existing].recommendations_text = recommendations_text,
                 ![existing].request_count = @ + 1]
        ELSE Append(recommendations,
                    [id |-> Len(recommendations) + 1,
                     book_name |-> book_name,
                     tags |-> tags_json,
                     recommendations_text |-> recommendations_text,
                     request_count |-> 1])

DbNames == {<<"a">>, <<"b">>}
DbTags == {<<>>, <<<<"a">>>>}
DbTexts == {<<"x">>, <<"y", "y", "y">>}

\* committed writes so far
Writes == Len(saves) + Len(search_history)

\* save_recommendations(book_name, tags, recommendations_text)
SaveRecommendations ==
    \E book_name \in DbNames, tag_list \in DbTags, text \in DbTexts :
        \/ /\ Writes < MaxDbWrites
           /\ recommendations' = Saved(book_name, TagsJson(tag_list), Truncate(text))
           /\ saves' = Append(saves, [book_name |-> book_name, tags |-> tag_list,
                                      text |-> text])
           /\ db_call' = Succeeded("save_recommendations", None)
           /\ UNCHANGED search_history
        \/ /\ \E failure \in DbFailures :
                 db_call' = Failed("save_recommendations", failure, None)
           /\ UNCHANGED <<recommendations, search_history, saves>>

\* str.isdigit() for the characters of the model
IsDigits(s) == s # <<>> /\ \A i \in 1..Len(s) : s[i] \in {"0", "1", "2", "5", "6"}

DigitValue(c) ==
    CASE c = "0" -> 0 [] c = "1" -> 1 [] c = "2" -> 2 [] c = "5" -> 5 [] c = "6" -> 6

\* int(s) for a str of digits
RECURSIVE IntOf(_)
IntOf(s) == IF s = <<>> THEN 0 ELSE 10 * IntOf(SubSeq(s, 1, Len(s) - 1)) + DigitValue(s[Len(s)])

\* lines 135-139
SanitizeIp(ip_address) ==
    IF Truthy(ip_address)
    THEN LET parts == Split(ip_address, ".")
         IN  IF Len(parts) # 4
                \/ ~(\A i \in 1..Len(parts) :
                        IsDigits(parts[i]) /\ 0 <= IntOf(parts[i]) /\ IntOf(parts[i]) <= 255)
             THEN None
             ELSE ip_address
    ELSE ip_address

IpAddresses ==
    { None, <<"1", ".", "2", ".", "0", ".", "1">>, <<"2", "5", "6", ".", "1", ".", "1", ".", "1">>,
      <<"1", ".", "2">> }

\* log_search(book_name, tags, ip_address)
LogSearch ==
    \E book_name \in DbNames, tag_list \in DbTags, ip_address \in IpAddresses :
        \/ /\ Writes < MaxDbWrites
           /\ search_history' = Append(search_history,
                                       [id |-> Len(search_history) + 1,
                                        book_name |-> book_name,
                                        tags |-> TagsJson(tag_list),
                                        ip_address |-> SanitizeIp(ip_address)])
           /\ db_call' = Succeeded("log_search", None)
           /\ UNCHANGED <<recommendations, saves>>
        \/ /\ \E failure \in DbFailures :
                 db_call' = Failed("log_search", failure, None)
           /\ UNCHANGED <<recommendations, search_history, saves>>

\* COUNT(*) ... GROUP BY book_name: the groups of search_history
SearchCount(book_name) ==
    Cardinality({i \in 1..Len(search_history) : search_history[i].book_name = book_name})

SearchGroups ==
    { [book_name |-> search_history[i].book_name,
       search_count |-> SearchCount(search_history[i].book_name)] :
      i \in 1..Len(search_history) }

\* ORDER BY search_count DESC: the orders the query may return the groups in
PopularOrders ==
    { order \in [1..Cardinality(SearchGroups) -> SearchGroups] :
        /\ \A i, j \in DOMAIN order : i # j => order[i] # order[j]
        /\ \A i, j \in DOMAIN order : i < j => order[i].search_count >= order[j].search_count }

\* the greatest limit get_popular_searches passes on (line 199)
MaxPopularLimit == 100

Limits == {1, 10, MaxPopularLimit + 1}

\* get_popular_searches(limit), the definition of line 187, which replaces the
\* one of line 157
GetPopularSearches ==
    /\ \E limit \in Limits :
          \/ \E order \in PopularOrders :
                db_call' = Succeeded("get_popular_searches",
                               Take(order, IF limit < MaxPopularLimit THEN limit
                                           ELSE MaxPopularLimit))
          \/ \E failure \in ReadFailures :
                db_call' = Failed("get_popular_searches", failure, <<>>)
    /\ UNCHANGED <<recommendations, search_history, saves>>

\* SUM(request_count) or 0: the sum is NULL for an empty table (line 234)
RECURSIVE SumRequests(_)
SumRequests(rows) ==
    IF rows = <<>> THEN 0 ELSE Head(rows).request_count + SumRequests(Tail(rows))

\* the dictionary of lines 246-250
ZeroStats == [total_recommendations |-> 0, total_requests |-> 0, total_searches |-> 0]

\* get_recommendation_stats()
GetRecommendationStats ==
    /\ \/ db_call' = Succeeded("get_recommendation_stats",
                         [total_recommendations |-> Len(recommendations),
                          total_requests |-> SumRequests(recommendations),
                          total_searches |-> Len(search_history)])
       \/ \E failure \in ReadFailures :
             db_call' = Failed("get_recommendation_stats", failure, ZeroStats)
    /\ UNCHANGED <<recommendations, search_history, saves>>

\* init_database() on import: both tables exist and are empty
DbInit ==
    /\ recommendations = <<>>
    /\ search_history = <<>>
    /\ saves = <<>>
    /\ db_call = [op |-> "import", failure |-> "none", raised |-> FALSE, result |-> None]

DbIdle ==
    /\ recommendations = <<>>
    /\ search_history = <<>>
    /\ saves = <<>>
    /\ db_call = [op |-> "import", failure |-> "none", raised |-> FALSE, result |-> None]

DbNext ==
    \/ SaveRecommendations /\ UNCHANGED <<kvars, cvars, svars, lvars, tvars, vvars, gvars, hvars, mvars>>
    \/ LogSearch /\ UNCHANGED <<kvars, cvars, svars, lvars, tvars, vvars, gvars, hvars, mvars>>
    \/ GetPopularSearches /\ UNCHANGED <<kvars, cvars, svars, lvars, tvars, vvars, gvars, hvars, mvars>>
    \/ GetRecommendationStats /\ UNCHANGED <<kvars, cvars, svars, lvars, tvars, vvars, gvars, hvars, mvars>>

(***************************************************************************)
(* The cache called for one key: set_cached and get_cached of              *)
(* services/cache_service.py, with Redis reachable in one call and not in  *)
(* the next.                                                               *)
(***************************************************************************)
OneQuery == [name |-> NameN(1), tags |-> <<>>]

\* set_cached for the key
OneSetCached ==
    /\ \E result \in Payloads : \E ttl \in TTLs : \E r \in RedisOutcomes :
          set_cached(OneQuery, result, ttl, r)
    /\ written' = IF call'.raised THEN written
                  ELSE [latest |-> call'.payload,
                        redis |-> IF call'.r = "ok" THEN call'.payload ELSE written.redis,
                        local |-> IF call'.r # "ok" THEN call'.payload
                                                   ELSE written.local]

\* get_cached for the key
OneGetCached ==
    /\ \E r \in RedisOutcomes : get_cached(OneQuery, r)
    /\ UNCHANGED written

OneTick ==
    /\ Tick
    /\ UNCHANGED written

WrittenIdle == written = [latest |-> None, redis |-> None, local |-> None]

OneKeyNext ==
    \/ OneSetCached /\ UNCHANGED <<kvars, svars, lvars, tvars, vvars, gvars, dvars, mvars>>
    \/ OneGetCached /\ UNCHANGED <<kvars, svars, lvars, tvars, vvars, gvars, dvars, mvars>>
    \/ OneTick /\ UNCHANGED <<kvars, svars, lvars, tvars, vvars, gvars, dvars, mvars>>

(***************************************************************************)
(* The relay of main.py: _stream_recommendations of lines 367-540, run     *)
(* after the relay of routers/recommendations.py for the same request, on  *)
(* the same upstream behaviour: the tag call, the generation call and the  *)
(* stream do for it what they did for the other relay.                     *)
(***************************************************************************)
\* OPENAI_MODEL of main.py, line 29 (first as if it named another model)
MainModel_Other == "gpt-5-nano"

MainModel == "gpt-4o-mini"

\* lines 405-413: the tags of a response with content
MainParseTags(content) == Take(CleanPieces(Split(Strip(content), ",")), 10)

\* lines 405-413 for each response the tag call can return
MainParsedTags ==
    [resp \in TagResponses |->
        IF resp.choices /\ Truthy(resp.content) THEN MainParseTags(resp.content) ELSE <<>>]

\* lines 450-467, 536-540: the message for an exception raised by the generation call
MainGenerationErrorMessage(e) ==
    IF IsInstance(e, "RateLimitError")
    THEN <<"API rate limit exceeded. Please try again later.">>
    ELSE IF IsInstance(e, "APITimeoutError")
    THEN <<"Request timed out. Please try again.">>
    ELSE IF IsInstance(e, "APIError")
    THEN <<"Error communicating with recommendation service. Please try again later.">>
    ELSE <<"An unexpected error occurred. Please try again later.">>

\* lines 505-510: the frames yielded when the iteration raises
MainIterationErrorEvents(e) ==
    <<ErrorEvent(<<"Error during streaming: ">> \o ExcText(e))>>

\* lines 517-527: the messages for a stream that ended without content
MainEmptyStreamMessage(count) ==
    IF count = 0
    THEN <<"No chunks received from API. Model '", MainModel,
           "' may not exist or may not support streaming. Please check the model name and try again.">>
    ELSE <<"Received ", count,
           " chunks but no content. The model may have returned an empty response.">>

\* lines 515-532: the frames yielded once the iteration has ended
MainCompletionEvents(text, count) ==
    IF text = <<>>
    THEN <<ErrorEvent(MainEmptyStreamMessage(count))>>
    ELSE <<DoneEvent(text)>>

\* the other relay has returned: what the upstream calls did is known
Recorded == pc = "ended"

\* lines 374-379: the generator starts with the tags of the request
MainStart ==
    /\ Recorded
    /\ m_pc = "start"
    /\ m_tags' = request_tags
    /\ m_pc' = IF request_tags = <<>> THEN "tags_call" ELSE "gen_call"
    /\ UNCHANGED <<m_accumulated_text, m_chunk_count, m_events, m_read>>

\* lines 380-419: the tag call returns the response it returned to the other relay
MainTagsReturn ==
    /\ m_pc = "tags_call"
    /\ upstream.tags \in {"usable", "unusable"}
    /\ \E resp \in TagResponses :
        /\ resp.content = upstream.content
        /\ (upstream.tags = "usable") = (resp.choices /\ Truthy(resp.content))
        /\ IF resp.choices /\ Truthy(resp.content)
           THEN /\ m_tags' = MainParsedTags[resp]
                /\ m_events' = Append(m_events, TagsEvent(MainParsedTags[resp]))
                /\ m_pc' = "yield_tags"
           ELSE /\ m_pc' = "gen_call"
                /\ UNCHANGED <<m_tags, m_events>>
        /\ UNCHANGED <<m_accumulated_text, m_chunk_count, m_read>>

\* lines 420-423: the tag call raises, as it did for the other relay
MainTagsRaise ==
    /\ m_pc = "tags_call"
    /\ upstream.tags = "raised"
    /\ \E e \in ExcClasses :
        /\ IF IsInstance(e, "Exception")
           THEN /\ m_tags' = <<>>
                /\ m_pc' = "gen_call"
                /\ UNCHANGED m_events
           ELSE /\ m_events' = Append(m_events,
                                      ErrorEvent(MainGenerationErrorMessage("Exception")))
                /\ m_pc' = "yield_error"
                /\ UNCHANGED m_tags
        /\ UNCHANGED <<m_accumulated_text, m_chunk_count, m_read>>

\* lines 417-426: the generator is resumed after the tags frame
MainResumeAfterTags ==
    /\ m_pc = "yield_tags"
    /\ m_pc' = "gen_call"
    /\ UNCHANGED <<m_tags, m_accumulated_text, m_chunk_count, m_events, m_read>>

\* lines 429-449, 470-471: the generation call returns the stream
MainGenerationReturn ==
    /\ m_pc = "gen_call"
    /\ upstream.gen = "returned"
    /\ m_accumulated_text' = <<>>
    /\ m_chunk_count' = 0
    /\ m_pc' = "next"
    /\ UNCHANGED <<m_tags, m_events, m_read>>

\* lines 450-467, 536-540: the generation call raises, as it did for the other relay
MainGenerationRaise ==
    /\ m_pc = "gen_call"
    /\ upstream.gen \in ExcClasses
    /\ m_events' = Append(m_events, ErrorEvent(MainGenerationErrorMessage(upstream.gen)))
    /\ m_pc' = "yield_error"
    /\ UNCHANGED <<m_tags, m_accumulated_text, m_chunk_count, m_read>>

\* lines 474-504: the stream delivers its next fragment
MainNextFragment ==
    /\ m_pc = "next"
    /\ m_read < Len(consumed)
    /\ m_read' = m_read + 1
    /\ m_chunk_count' = m_chunk_count + 1
    /\ LET f == consumed[m_read + 1]
       IN  IF ~f.choices \/ ~f.delta
           THEN /\ m_pc' = "next"
                /\ UNCHANGED <<m_accumulated_text, m_events>>
           ELSE IF Truthy(f.value)
           THEN /\ m_accumulated_text' = m_accumulated_text \o f.value
                /\ m_events' = Append(m_events,
                                      ChunkEvent(f.value, m_accumulated_text \o f.value))
                /\ m_pc' = "yield_chunk"
           ELSE /\ m_pc' = "sleep"
                /\ UNCHANGED <<m_accumulated_text, m_events>>
    /\ UNCHANGED m_tags

\* lines 499-504: the generator is resumed after a chunk frame and sleeps
MainResumeAfterChunk ==
    /\ m_pc = "yield_chunk"
    /\ m_pc' = "sleep"
    /\ UNCHANGED <<m_tags, m_accumulated_text, m_chunk_count, m_events, m_read>>

\* line 504: the sleep is over
MainResumeAfterSleep ==
    /\ m_pc = "sleep"
    /\ m_pc' = "next"
    /\ UNCHANGED <<m_tags, m_accumulated_text, m_chunk_count, m_events, m_read>>

\* lines 505-510: the iteration raises, as it did for the other relay
MainIterationRaise ==
    /\ m_pc = "next"
    /\ m_read = Len(consumed)
    /\ upstream.iter \in ExcClasses
    /\ m_events' = m_events \o MainIterationErrorEvents(upstream.iter)
    /\ m_pc' = "yield_error"
    /\ UNCHANGED <<m_tags, m_accumulated_text, m_chunk_count, m_read>>

\* lines 512-532: the iteration ends, as it did for the other relay
MainIterationEnds ==
    /\ m_pc = "next"
    /\ m_read = Len(consumed)
    /\ upstream.iter = "ended"
    /\ m_events' = m_events \o MainCompletionEvents(m_accumulated_text, m_chunk_count)
    /\ m_pc' = IF m_accumulated_text = <<>> THEN "yield_error" ELSE "yield_done"
    /\ UNCHANGED <<m_tags, m_accumulated_text, m_chunk_count, m_read>>

\* the generator is resumed after its last frame and returns
MainReturn ==
    /\ m_pc \in {"yield_error", "yield_done"}
    /\ m_pc' = "ended"
    /\ UNCHANGED <<m_tags, m_accumulated_text, m_chunk_count, m_events, m_read>>

MainIdle ==
    /\ m_pc = "start"
    /\ m_tags = <<>>
    /\ m_accumulated_text = <<>>
    /\ m_chunk_count = 0
    /\ m_events = <<>>
    /\ m_read = 0

\* a step of the relay of main.py
MainStep ==
    \/ MainStart
    \/ MainTagsReturn
    \/ MainTagsRaise
    \/ MainResumeAfterTags
    \/ MainGenerationReturn
    \/ MainGenerationRaise
    \/ MainNextFragment
    \/ MainResumeAfterChunk
    \/ MainResumeAfterSleep
    \/ MainIterationRaise
    \/ MainIterationEnds
    \/ MainReturn

\* both relays for one request: first the one of routers/recommendations.py,
\* then the one of main.py
BothNext ==
    \/ Start /\ UNCHANGED <<kvars, cvars, lvars, tvars, evars>>
    \/ TagsReturn /\ UNCHANGED <<kvars, cvars, lvars, tvars, evars>>
    \/ TagsRaise /\ UNCHANGED <<kvars, cvars, lvars, tvars, evars>>
    \/ ResumeAfterTags /\ UNCHANGED <<kvars, cvars, lvars, tvars, evars>>
    \/ GenerationReturn /\ UNCHANGED <<kvars, cvars, lvars, tvars, evars>>
    \/ GenerationRaise /\ UNCHANGED <<kvars, cvars, lvars, tvars, evars>>
    \/ NextFragment /\ UNCHANGED <<kvars, cvars, lvars, tvars, evars>>
    \/ ResumeAfterChunk /\ UNCHANGED <<kvars, cvars, lvars, tvars, evars>>
    \/ ResumeAfterSleep /\ UNCHANGED <<kvars, cvars, lvars, tvars, evars>>
    \/ IterationRaise /\ UNCHANGED <<kvars, cvars, lvars, tvars, evars>>
    \/ IterationEnds /\ UNCHANGED <<kvars, cvars, lvars, tvars, evars>>
    \/ Return /\ UNCHANGED <<kvars, cvars, lvars, tvars, evars>>
    \/ MainStart /\ UNCHANGED <<kvars, cvars, svars, lvars, tvars, vvars, gvars, dvars, hvars>>
    \/ MainTagsReturn /\ UNCHANGED <<kvars, cvars, svars, lvars, tvars, vvars, gvars, dvars, hvars>>
    \/ MainTagsRaise /\ UNCHANGED <<kvars, cvars, svars, lvars, tvars, vvars, gvars, dvars, hvars>>
    \/ MainResumeAfterTags /\ UNCHANGED <<kvars, cvars, svars, lvars, tvars, vvars, gvars, dvars, hvars>>
    \/ MainGenerationReturn /\ UNCHANGED <<kvars, cvars, svars, lvars, tvars, vvars, gvars, dvars, hvars>>
    \/ MainGenerationRaise /\ UNCHANGED <<kvars, cvars, svars, lvars, tvars, vvars, gvars, dvars, hvars>>
    \/ MainNextFragment /\ UNCHANGED <<kvars, cvars, svars, lvars, tvars, vvars, gvars, dvars, hvars>>
    \/ MainResumeAfterChunk /\ UNCHANGED <<kvars, cvars, svars, lvars, tvars, vvars, gvars, dvars, hvars>>
    \/ MainResumeAfterSleep /\ UNCHANGED <<kvars, cvars, svars, lvars, tvars, vvars, gvars, dvars, hvars>>
    \/ MainIterationRaise /\ UNCHANGED <<kvars, cvars, svars, lvars, tvars, vvars, gvars, dvars, hvars>>
    \/ MainIterationEnds /\ UNCHANGED <<kvars, cvars, svars, lvars, tvars, vvars, gvars, dvars, hvars>>
    \/ MainReturn /\ UNCHANGED <<kvars, cvars, svars, lvars, tvars, vvars, gvars, dvars, hvars>>

RestIdle == ValidateIdle /\ TagsIdle /\ DbIdle /\ WrittenIdle /\ MainIdle

(***************************************************************************)
(* Specifications.                                                         *)
(***************************************************************************)
KeySpecInit == KeyInit /\ CacheIdle /\ StreamIdle /\ LoopIdle /\ TaskIdle /\ RestIdle

KeySpec == KeySpecInit /\ [][KeyNext]_vars

CacheSpecInit == CacheInit /\ KeyIdle /\ StreamIdle /\ LoopIdle /\ TaskIdle /\ RestIdle

CacheSpec == CacheSpecInit /\ [][CacheNext]_vars

StreamSpecInit == StreamInit /\ KeyIdle /\ CacheIdle /\ LoopIdle /\ TaskIdle /\ RestIdle

StreamSpec == StreamSpecInit /\ [][StreamNext]_vars

\* the relay is driven as long as it can take a step: the server keeps iterating
\* the generator and every upstream call returns or raises within its timeout
FairStreamSpec == StreamSpec /\ WF_vars(StreamNext)

\* the run of one request beside another request task
LoopSpec == StreamSpecInit /\ [][LoopNext]_vars

\* request tasks that call the cache on the one thread of the event loop
TaskSpecInit == KeyIdle /\ CacheIdle /\ StreamIdle /\ LoopIdle /\ TaskIdle /\ RestIdle

TaskSpec == TaskSpecInit /\ [][TaskNext]_vars

\* validate_tags applied to the tag lists of requests
ValidateSpecInit ==
    ValidateInit /\ KeyIdle /\ CacheIdle /\ StreamIdle /\ LoopIdle /\ TaskIdle /\ TagsIdle
    /\ DbIdle /\ WrittenIdle /\ MainIdle

ValidateSpec == ValidateSpecInit /\ [][ValidateNext]_vars

\* the tags endpoint serving requests one after another
TagsSpecInit ==
    TagsInit /\ KeyIdle /\ CacheIdle /\ StreamIdle /\ LoopIdle /\ TaskIdle /\ ValidateIdle
    /\ DbIdle /\ WrittenIdle /\ MainIdle

TagsSpec == TagsSpecInit /\ [][TagsNext]_vars

\* calls of the persistence functions, one after another
DbSpecInit ==
    DbInit /\ KeyIdle /\ CacheIdle /\ StreamIdle /\ LoopIdle /\ TaskIdle /\ ValidateIdle
    /\ TagsIdle /\ WrittenIdle /\ MainIdle

DbSpec == DbSpecInit /\ [][DbNext]_vars

\* set_cached and get_cached called for one key
OneKeySpecInit ==
    CacheInit /\ KeyIdle /\ StreamIdle /\ LoopIdle /\ TaskIdle /\ RestIdle

OneKeySpec == OneKeySpecInit /\ [][OneKeyNext]_vars

\* one request served by both relays
BothSpec == StreamSpecInit /\ [][BothNext]_vars

(***************************************************************************)
(* Properties of the tiered cache.                                         *)
(***************************************************************************)
\* the step is a call of get_cached, of set_cached
GetStep == call'.op = "get" /\ now' = now
SetStep == call'.op = "set" /\ now' = now

\* the backend was not reachable in a call with Redis outcome r
Unavailable(r) == r \in {"none", "fail"}

\* C4 as stated: set_cached followed by get_cached for the same query returns
\* the stored payload before the TTL elapses and None after it has elapsed,
\* whatever the availability of Redis at the two calls.
C4_Original ==
    [][ (call.op = "set" /\ call'.op = "get" /\ call'.key = call.key)
            => call'.ret = (IF now < call.exp THEN call.payload ELSE None) ]_vars

\* C4 amended: with Redis unavailable at both calls, set_cached followed by
\* get_cached for the same query returns the stored payload before the TTL
\* elapses and None after it has elapsed; with Redis available at both calls and
\* a non-empty payload, get_cached before the TTL elapses returns the stored
\* payload.
C4_SetThenGet ==
    [][ (call.op = "set" /\ call'.op = "get" /\ call'.key = call.key) =>
            /\ (Unavailable(call.r) /\ Unavailable(call'.r))
                   => call'.ret = (IF now < call.exp THEN call.payload ELSE None)
            /\ (call.r = "ok" /\ call'.r = "ok" /\ now < call.exp /\ call.payload # <<>>)
                   => call'.ret = call.payload ]_vars

\* a get_cached right after a set_cached of the same key, answered by Redis
C4_Witness ==
    /\ call.op = "get"
    /\ call.prev_set
    /\ call.r = "ok"
    /\ call.ret = <<"x">>

\* C5: the in-memory store never holds more than CACHE_MAX_SIZE entries.
C5_LocalStoreBounded == Cardinality(DOMAIN cache) <= CACHE_MAX_SIZE

\* a set_cached that found the store full, with Redis failing, and made room
C5_Witness ==
    /\ call.op = "set"
    /\ call.r = "fail"
    /\ call.evicted # {}
    /\ Cardinality(DOMAIN cache) = CACHE_MAX_SIZE

\* C6 as stated: a set_cached that writes to the full in-memory store removes
\* exactly one entry, the one with the earliest expiry, and keeps all others.
C6_Original ==
    [][ (SetStep /\ call'.r # "ok" /\ Cardinality(DOMAIN cache) >= CACHE_MAX_SIZE) =>
            \E k \in DOMAIN cache :
                /\ call'.purged \cup call'.evicted = {k}
                /\ \A j \in DOMAIN cache : cache_ttl[k] <= cache_ttl[j]
                /\ \A j \in DOMAIN cache \ {k} : j \in DOMAIN cache' ]_vars

\* C6 amended: a set_cached that writes to the full in-memory store removes
\* every entry that has expired; if none has expired it removes exactly one
\* entry, one with the earliest expiry; every entry it does not remove is
\* still present afterwards, and a removed entry is absent unless it is the
\* key written.
C6_EvictsEarliest ==
    [][ (SetStep /\ call'.r # "ok" /\ Cardinality(DOMAIN cache) >= CACHE_MAX_SIZE) =>
            LET expired == { k \in DOMAIN cache : now >= cache_ttl[k] }
                removed == call'.purged \cup call'.evicted
            IN  /\ IF expired # {}
                   THEN removed = expired
                   ELSE \E k \in DOMAIN cache :
                            /\ removed = {k}
                            /\ \A j \in DOMAIN cache : cache_ttl[k] <= cache_ttl[j]
                /\ \A j \in DOMAIN cache \ removed : j \in DOMAIN cache'
                /\ \A j \in removed : j # call'.key => j \notin DOMAIN cache' ]_vars

\* a set_cached of a new key that found the store full of live entries
C6_Witness ==
    /\ call.op = "set"
    /\ call.purged = {}
    /\ call.evicted # {}
    /\ call.key \notin call.evicted

\* C7: the payload map and the expiry map have the same keys.
C7_MapsAgree == DOMAIN cache = DOMAIN cache_ttl

\* a get_cached that removed an expired entry and left another in place
C7_Witness ==
    /\ call.op = "get"
    /\ call.removed # {}
    /\ cache # EmptyDict

\* C10 as stated: a get_cached whose Redis read succeeds returns the result of
\* that read, None for a miss, and leaves the in-memory store alone.
C10_Original ==
    [][ (GetStep /\ call'.r = "ok") =>
            /\ call'.ret = (IF RedisKey(call'.key) \in DOMAIN redis
                               /\ now < redis[RedisKey(call'.key)].exp
                            THEN redis[RedisKey(call'.key)].val
                            ELSE None)
            /\ cache' = cache
            /\ cache_ttl' = cache_ttl ]_vars

\* the step is a call of clear_cache, of get_cache_stats
ClearStep == call'.op = "clear" /\ now' = now
StatsStep == call'.op = "stats" /\ now' = now

\* what the in-memory store answers for key: its payload if the entry is live
LocalAnswer(key) ==
    IF key \in DOMAIN cache /\ key \in DOMAIN cache_ttl /\ now < cache_ttl[key]
    THEN cache[key]
    ELSE None

\* C11: a call during which the Redis command raises returns normally:
\* get_cached returns the answer of the in-memory store, set_cached writes the
\* payload and its expiry to the in-memory store, clear_cache empties the
\* in-memory store, get_cache_stats reports the in-memory size and 0 Redis keys.
C11_BackendFailureAbsorbed ==
    [][ (now' = now /\ call'.r = "fail") =>
            /\ ~call'.raised
            /\ call'.op = "get" => call'.ret = LocalAnswer(call'.key)
            /\ call'.op = "set" =>
                   /\ call'.key \in DOMAIN cache'
                   /\ cache'[call'.key] = call'.payload
                   /\ cache_ttl'[call'.key] = call'.exp
            /\ call'.op = "clear" => cache' = EmptyDict /\ cache_ttl' = EmptyDict
            /\ call'.op = "stats" =>
                   /\ call'.ret.in_memory_size = Cardinality(DOMAIN cache)
                   /\ call'.ret.redis_size = 0
                   /\ cache' = cache /\ cache_ttl' = cache_ttl ]_vars

\* a get_cached that returned the payload of the in-memory store while the Redis
\* command raised and Redis held another payload for the key
C11_Witness ==
    /\ call.op = "get"
    /\ call.r = "fail"
    /\ ~call.raised
    /\ call.ret = <<"x">>
    /\ RedisKey(call.key) \in DOMAIN redis
    /\ redis[RedisKey(call.key)].val = <<"y">>

\* C12: a set_cached whose Redis write succeeds leaves the payload map and the
\* expiry map as they were.
C12_RedisWriteLeavesLocal ==
    [][ (SetStep /\ call'.r = "ok") => cache' = cache /\ cache_ttl' = cache_ttl ]_vars

\* a set_cached answered by Redis while the in-memory store was full, held an
\* expired entry, and held another payload for the key
C12_Witness ==
    /\ call.op = "set"
    /\ call.r = "ok"
    /\ Cardinality(DOMAIN cache) = CACHE_MAX_SIZE
    /\ \E k \in DOMAIN cache_ttl : now >= cache_ttl[k]
    /\ call.key \in DOMAIN cache
    /\ cache[call.key] # call.payload

\* C13: a get_cached that reaches the in-memory store and finds an entry whose
\* expiry has passed returns None and removes the entry from both maps, leaving
\* the other entries alone.
C13_ExpiredEntryPurgedOnRead ==
    [][ ( /\ GetStep
          /\ call'.r = "ok" => ~Truthy(RedisGet(RedisKey(call'.key)))
          /\ call'.key \in DOMAIN cache
          /\ now >= cache_ttl[call'.key] ) =>
            /\ call'.ret = None
            /\ DOMAIN cache' = DOMAIN cache \ {call'.key}
            /\ DOMAIN cache_ttl' = DOMAIN cache_ttl \ {call'.key}
            /\ \A j \in DOMAIN cache' : cache'[j] = cache[j] /\ cache_ttl'[j] = cache_ttl[j]
      ]_vars

\* a get_cached that Redis answered with a miss and that removed the expired
\* entry of the in-memory store
C13_Witness ==
    /\ call.op = "get"
    /\ call.r = "ok"
    /\ call.removed = {call.key}
    /\ call.ret = None
    /\ call.key \notin DOMAIN cache
    /\ call.key \notin DOMAIN cache_ttl

\* C14: a set_cached that writes to the full in-memory store while an entry has
\* expired removes the expired entries and no other: every entry that has not
\* expired is still present, with its payload unless it is the key written.
C14_PurgeBeforeEvict ==
    [][ ( /\ SetStep
          /\ call'.r # "ok"
          /\ Cardinality(DOMAIN cache) >= CACHE_MAX_SIZE
          /\ \E k \in DOMAIN cache : now >= cache_ttl[k] ) =>
            LET expired == { k \in DOMAIN cache : now >= cache_ttl[k] }
            IN  /\ call'.purged = expired
                /\ call'.evicted = {}
                /\ \A j \in DOMAIN cache \ expired :
                       /\ j \in DOMAIN cache'
                       /\ j # call'.key => cache'[j] = cache[j] /\ cache_ttl'[j] = cache_ttl[j]
      ]_vars

\* a set_cached of a new key that found the store full, purged an expired
\* entry and kept a live one
C14_Witness ==
    /\ call.op = "set"
    /\ call.purged # {}
    /\ call.evicted = {}
    /\ call.key \notin call.purged
    /\ \E j \in DOMAIN cache : j # call.key /\ now < cache_ttl[j]

\* C15: clear_cache leaves both maps empty whatever the outcome of the Redis
\* commands; the in-memory store stays empty until a set_cached, and while it is
\* empty a get_cached that Redis does not answer returns None.
C15_ClearEmptiesLocal ==
    [][ /\ ClearStep => cache' = EmptyDict /\ cache_ttl' = EmptyDict
        /\ (cache = EmptyDict /\ cache' # EmptyDict) => call'.op = "set"
        /\ (GetStep /\ Unavailable(call'.r) /\ cache = EmptyDict) =>
               call'.ret = None /\ cache' = EmptyDict ]_vars

\* a clear_cache that emptied the full in-memory store while the Redis command
\* raised and Redis kept its entries
C15_Witness ==
    /\ call.op = "clear"
    /\ call.r = "fail"
    /\ call.had = CACHE_MAX_SIZE
    /\ cache = EmptyDict
    /\ cache_ttl = EmptyDict
    /\ redis # EmptyDict

\* the step is a set_cached that writes to the in-memory store a key present
\* there
Overwrite ==
    /\ SetStep
    /\ call'.r # "ok"
    /\ ~call'.raised
    /\ call'.key \in DOMAIN cache

\* the keys of the entries of the maps c and t that have not expired at time
LiveKeys(c, t, time) == { k \in DOMAIN c : k \in DOMAIN t /\ time < t[k] }

\* C36 as stated: a set_cached that overwrites a key of the in-memory store
\* replaces its payload and expiry, leaves every other live entry in place and
\* does not lower the number of live entries.
C36_Original ==
    [][ Overwrite =>
            /\ cache'[call'.key] = call'.payload
            /\ cache_ttl'[call'.key] = call'.exp
            /\ \A j \in LiveKeys(cache, cache_ttl, now) \ {call'.key} :
                   /\ j \in DOMAIN cache'
                   /\ cache'[j] = cache[j]
                   /\ cache_ttl'[j] = cache_ttl[j]
            /\ Cardinality(LiveKeys(cache', cache_ttl', now)) >=
                   Cardinality(LiveKeys(cache, cache_ttl, now)) ]_vars

\* C36 amended: a set_cached that overwrites a key of the in-memory store
\* replaces its payload and expiry.  Below the capacity limit it leaves every
\* other entry in place.  At the capacity limit it removes the expired entries
\* and, if none has expired, one entry with the earliest expiry, which can be
\* another live entry; every other live entry stays in place, and the number
\* of live entries drops by one at most.
C36_OverwriteAtCapacity ==
    [][ Overwrite =>
            LET live == LiveKeys(cache, cache_ttl, now)
                lost == { j \in live \ {call'.key} : j \notin DOMAIN cache' }
            IN  /\ cache'[call'.key] = call'.payload
                /\ cache_ttl'[call'.key] = call'.exp
                /\ \A j \in (live \ {call'.key}) \ lost :
                       cache'[j] = cache[j] /\ cache_ttl'[j] = cache_ttl[j]
                /\ Cardinality(DOMAIN cache) < CACHE_MAX_SIZE =>
                       /\ lost = {}
                       /\ DOMAIN cache' = DOMAIN cache
                /\ lost # {} =>
                       /\ Cardinality(lost) = 1
                       /\ live = DOMAIN cache
                       /\ \A j \in lost : \A k \in DOMAIN cache :
                              cache_ttl[j] <= cache_ttl[k]
                /\ Cardinality(LiveKeys(cache', cache_ttl', now)) + 1 >=
                       Cardinality(live) ]_vars

\* a set_cached that overwrote a key of the full in-memory store and evicted
\* another entry, which had not expired
C36_Witness ==
    /\ call.op = "set"
    /\ call.r # "ok"
    /\ call.purged = {}
    /\ call.evicted # {}
    /\ call.key \notin call.evicted
    /\ Cardinality(DOMAIN cache) = CACHE_MAX_SIZE - 1

\* the step leaves both maps of the in-memory store as they are
LocalUnchanged == cache' = cache /\ cache_ttl' = cache_ttl

\* C37: get_cached changes the in-memory store only by removing the expired
\* entry of its key: a read answered by Redis, a miss on an absent key and a hit
\* leave both maps unchanged, and the entries of the other keys stay as they are.
C37_GetFrame ==
    [][ GetStep =>
            /\ DOMAIN cache' \ {call'.key} = DOMAIN cache \ {call'.key}
            /\ DOMAIN cache_ttl' \ {call'.key} = DOMAIN cache_ttl \ {call'.key}
            /\ \A j \in DOMAIN cache \ {call'.key} :
                   cache'[j] = cache[j] /\ cache_ttl'[j] = cache_ttl[j]
            /\ (call'.r = "ok" /\ Truthy(RedisGet(RedisKey(call'.key)))) => LocalUnchanged
            /\ call'.key \notin DOMAIN cache => LocalUnchanged
            /\ (call'.key \in DOMAIN cache /\ now < cache_ttl[call'.key]) => LocalUnchanged
            /\ ~LocalUnchanged =>
                   /\ now >= cache_ttl[call'.key]
                   /\ call'.key \notin DOMAIN cache'
                   /\ call'.key \notin DOMAIN cache_ttl' ]_vars

\* a get_cached that removed the expired entry of its key and left the expired
\* entry of another key in place
C37_Witness ==
    /\ call.op = "get"
    /\ call.removed = {call.key}
    /\ call.key \notin DOMAIN cache
    /\ \E j \in DOMAIN cache : now >= cache_ttl[j]

\* the step is a get_cached that returned a payload
ReturnsPayload == GetStep /\ ~call'.raised /\ call'.ret # None

\* C35 as stated: a get_cached that returns a payload returns the payload of
\* the most recent set_cached for the key.
C35_Original == [][ ReturnsPayload => call'.ret = written.latest ]_vars

\* C35 amended: a get_cached that returns a payload read from Redis returns the
\* payload of the most recent set_cached whose Redis write succeeded; one that
\* returns a payload of the in-memory store returns the payload of the most
\* recent set_cached that found Redis not reachable.
C35_LatestOfAnsweringStore ==
    [][ ReturnsPayload =>
            IF call'.r = "ok" /\ Truthy(RedisGet(RedisKey(call'.key)))
            THEN call'.ret = written.redis
            ELSE call'.ret = written.local ]_vars

\* a get_cached, with Redis not reachable, that returned the payload of the
\* in-memory store after a later set_cached had written another to Redis
C35_Witness ==
    /\ call.op = "get"
    /\ call.r = "fail"
    /\ call.ret = <<"x">>
    /\ written.local = <<"x">>
    /\ written.latest = <<"y">>
    /\ written.redis = <<"y">>

(***************************************************************************)
(* Properties of the key normalizer.                                       *)
(***************************************************************************)
\* C8 as stated: reordering the tags, changing the letter case of a tag or of
\* the name, or changing the blanks around a tag or the name leaves the key
\* unchanged.
C8_Original ==
    [][ kOp' \in {"permute", "recase", "repad", "rename"} => kKey' = kKey ]_vars

\* C9 as stated: giving a tag of the list once more, or once less, leaves the
\* key unchanged.
C9_Original ==
    [][ kOp' \in {"repeat", "unrepeat"} => kKey' = kKey ]_vars

C38_SameFrames ==
    /\ Len(m_events) <= Len(events)
    /\ m_events = SubSeq(events, 1, Len(m_events))
    /\ (Recorded /\ m_pc # "ended") => ENABLED MainStep
    /\ m_pc = "ended" => m_events = events

\* both relays have returned after a tags frame, a chunk frame and a fragment
\* without content
C38_Witness ==
    /\ pc = "ended"
    /\ m_pc = "ended"
    /\ Len(m_events) >= 3
    /\ IsTags(m_events[1])
    /\ \E i \in 1..Len(m_events) : IsChunk(m_events[i])
    /\ m_chunk_count > Len(SelectSeq(m_events, IsChunk))

(***************************************************************************)
(* Properties of the request validation.                                   *)
(***************************************************************************)
\* the tags of l, each trimmed and lower-cased
CleanList(l) == [i \in 1..Len(l) |-> Lower(Strip(l[i]))]

\* the tag s is within the limits
WithinLimits(s) ==
    /\ Len(s) >= 1
    /\ Len(s) <= MaxTagLength
    /\ \A k \in 1..Len(s) : Ord(s[k]) >= 32

\* the places of the cleaned list c where a valid tag occurs for the first time
FirstValidIn(c) ==
    { i \in 1..Len(c) :
        WithinLimits(c[i]) /\ \A j \in 1..(i - 1) : c[j] # c[i] }

FirstValid == FirstValidIn(CleanList(vIn))

\* the elements of the set of numbers S in ascending order
RECURSIVE Ascend(_)
Ascend(S) ==
    IF S = {} THEN <<>>
    ELSE LET least == CHOOSE x \in S : \A y \in S : x <= y
         IN  <<least>> \o Ascend(S \ {least})

GotTags(result) ==
    /\ result.status = 200
    /\ Len(result.tags) <= 10
    /\ \A k \in 1..Len(result.tags) :
          /\ result.tags[k] # <<>>
          /\ Strip(result.tags[k]) = result.tags[k]
          /\ Lower(result.tags[k]) = result.tags[k]

\* the caller got the empty tag list
GotNoTags(result) == result.status = 200 /\ result.tags = <<>>

\* C33 as stated: whenever the upstream call raised, or returned a response
\* without choices or content, the caller got the empty tag list; whenever it
\* returned content the caller got at most 10 trimmed, lower-cased, non-empty
\* tags.
C33_Original ==
    \A n \in 1..Len(served) :
        IF served[n].usable
        THEN GotTags(served[n].result)
        ELSE GotNoTags(served[n].result)

\* an upstream failure of class ValueError reached the caller as a 400 response
C33_Surfaced ==
    \E n \in 1..Len(served) :
        /\ served[n].upstream = "ValueError"
        /\ served[n].result.status = 400

(***************************************************************************)
(* Properties of the persistence functions.                                *)
(***************************************************************************)
\* what the function returns when it swallows a failure
DefaultOf(op) ==
    CASE op = "save_recommendations" -> None
      [] op = "log_search" -> None
      [] op = "get_popular_searches" -> <<>>

\* C34: a call that met a database failure, at connecting, at a query or at the
\* commit, did not raise; save_recommendations and log_search returned
\* normally, get_popular_searches returned the empty list and
\* get_recommendation_stats the dictionary of zeros.
C34_FailuresSwallowed ==
    db_call.failure # "none" =>
        /\ ~db_call.raised
        /\ IF db_call.op = "get_recommendation_stats"
           THEN db_call.result = ZeroStats
           ELSE db_call.result = DefaultOf(db_call.op)

\* get_recommendation_stats met a failing query on a database that holds a row
\* of each table
C34_Witness ==
    /\ db_call.op = "get_recommendation_stats"
    /\ db_call.failure = "query"
    /\ db_call.result = ZeroStats
    /\ recommendations # <<>>
    /\ search_history # <<>>

\* the save_recommendations calls made for the pair, in call order
SavesOf(book_name, tag_list) ==
    SelectSeq(saves, LAMBDA s : s.book_name = book_name /\ s.tags = tag_list)

\* the rows of the pair
RowsOf(book_name, tag_list) ==
    { i \in 1..Len(recommendations) :
        /\ recommendations[i].book_name = book_name
        /\ recommendations[i].tags = TagsJson(tag_list) }

\* C39 as stated: the table holds at most one row for a pair of book_name and
\* tags, the pair with the empty tag list included; the row's request_count is
\* the number of save_recommendations calls made for the pair and its text the
\* text of the latest of them.
C39_Original ==
    \A book_name \in DbNames, tag_list \in DbTags :
        LET made == SavesOf(book_name, tag_list)
            rows == RowsOf(book_name, tag_list)
        IN  /\ Cardinality(rows) <= 1
            /\ \A i \in rows :
                  /\ recommendations[i].request_count = Len(made)
                  /\ recommendations[i].recommendations_text = made[Len(made)].text

(***************************************************************************)
(* Properties of the streaming relay.                                      *)
(***************************************************************************)
IsTerminal(e) == IsDone(e) \/ IsError(e)

Terminals == { i \in 1..Len(events) : IsTerminal(events[i]) }

\* the concatenation of the strings of l
RECURSIVE Concat(_)
Concat(l) == IF l = <<>> THEN <<>> ELSE Head(l) \o Concat(Tail(l))

\* the non-empty contents of the fragments delivered so far, in order
RECURSIVE Contents(_)
Contents(fs) ==
    IF fs = <<>> THEN <<>>
    ELSE IF Head(fs).choices /\ Head(fs).delta
            /\ Head(fs).value # None /\ Head(fs).value # <<>>
         THEN <<Head(fs).value>> \o Contents(Tail(fs))
         ELSE Contents(Tail(fs))

ChunkEvents == SelectSeq(events, IsChunk)

\* C1: the frames of a run are at most one tags frame, which comes first, then
\* chunk frames, then at most one done or error frame, which comes last.
C1_PhaseOrder ==
    /\ \A i \in 1..Len(events) : IsTags(events[i]) => i = 1
    /\ \A i \in 1..Len(events) : IsTerminal(events[i]) => i = Len(events)
    /\ \A i \in 1..Len(events) :
           IsTags(events[i]) \/ IsChunk(events[i]) \/ IsTerminal(events[i])

\* a run that yielded a tags frame, a chunk frame and a terminal frame
C1_Witness ==
    /\ Len(events) >= 3
    /\ IsTags(events[1])
    /\ IsChunk(events[2])
    /\ IsTerminal(events[Len(events)])
    /\ pc = "ended"

\* C2 as stated, its safety half: a run that is over, by return or by a client
\* disconnect, has yielded exactly one terminal frame.
C2_Original == Over => Cardinality(Terminals) = 1

\* C2 amended: every run is over eventually; a run that returned has yielded
\* exactly one terminal frame, and a run left by the cancellation that follows a
\* client disconnect has yielded at most one.
C2_EndsWithOneTerminal ==
    /\ <>Over
    /\ [](pc = "ended" => Cardinality(Terminals) = 1)
    /\ [](pc = "cancelled" => Cardinality(Terminals) <= 1)

\* a run that returned after the frame of the catch-all handler
C2_Witness ==
    /\ pc = "ended"
    /\ events = <<ErrorEvent(<<"An unexpected error occurred. Please try again later.">>)>>

\* C3: the i-th chunk frame carries the i-th non-empty content and the
\* concatenation of the first i of them, and the done frame carries the
\* concatenation of all of them, the text of the last chunk frame.
C3_ChunksAccumulate ==
    /\ Len(ChunkEvents) = Len(Contents(consumed))
    /\ \A i \in 1..Len(ChunkEvents) :
           /\ ChunkEvents[i].chunk = Contents(consumed)[i]
           /\ ChunkEvents[i].text = Concat(SubSeq(Contents(consumed), 1, i))
    /\ \A i \in 1..Len(events) :
           IsDone(events[i]) =>
               /\ Contents(consumed) # <<>>
               /\ events[i].text = Concat(Contents(consumed))
               /\ events[i].text = ChunkEvents[Len(ChunkEvents)].text

\* a run over the fragments A, B, C that yielded the done frame
C3_Witness ==
    /\ Contents(consumed) = << <<"A">>, <<"B">>, <<"C">> >>
    /\ Len(events) = 4
    /\ events[3] = ChunkEvent(<<"C">>, <<"A", "B", "C">>)
    /\ events[4] = DoneEvent(<<"A", "B", "C">>)

(***************************************************************************)
(* Properties of the relay's failure paths.                                *)
(***************************************************************************)
\* the run has yielded its last frame
Finished == pc \in {"yield_error", "yield_done", "ended", "cancelled"}

LastEvent == events[Len(events)]

NoDoneEvent == \A i \in 1..Len(events) : ~IsDone(events[i])

\* msg holds the strings of sub, in a row
Contains(msg, sub) ==
    \E i \in 1..(Len(msg) - Len(sub) + 1) : SubSeq(msg, i, i + Len(sub) - 1) = sub

\* C16: when the iteration ends without failure and nothing was accumulated,
\* the run yields exactly one error frame and no done frame; the message is the
\* one for no fragment at all when chunk_count is 0 and the one for fragments
\* without content otherwise.
C16_EmptyStreamError ==
    (upstream.iter = "ended" /\ accumulated_text = <<>>) =>
        /\ Finished
        /\ Cardinality(Terminals) = 1
        /\ NoDoneEvent
        /\ ChunkEvents = <<>>
        /\ IsError(LastEvent)
        /\ chunk_count = Len(consumed)
        /\ chunk_count = 0 =>
               LastEvent.error =
                   <<"No chunks received from API. Model '", "gpt-4o-mini",
                     "' may not exist or may not support streaming. Please check the model name and try again.">>
        /\ chunk_count > 0 =>
               LastEvent.error =
                   <<"Received ", chunk_count,
                     " chunks but no content. The model may have returned an empty response.">>

\* a run that returned after two fragments without content
C16_Witness ==
    /\ pc = "ended"
    /\ upstream.iter = "ended"
    /\ chunk_count = 2
    /\ accumulated_text = <<>>
    /\ IsError(LastEvent)

\* the fixed message of an upstream failure of the kind
SafeMessage(kind) ==
    CASE kind = "RateLimitError" -> <<"API rate limit exceeded. Please try again later.">>
      [] kind = "APITimeoutError" -> <<"Request timed out. Please try again.">>
      [] kind = "APIError" ->
             <<"Error communicating with recommendation service. Please try again later.">>

UpstreamKinds == {"RateLimitError", "APITimeoutError", "APIError"}

\* C17: when the generation call raises a rate-limit, timeout or provider
\* error, the run yields exactly one error frame, with the fixed message of the
\* kind, no chunk frame and no done frame, and no fragment is iterated.
C17_GenerationFailureShortCircuits ==
    upstream.gen \in UpstreamKinds =>
        /\ Finished
        /\ Cardinality(Terminals) = 1
        /\ LastEvent = [error |-> SafeMessage(upstream.gen)]
        /\ ChunkEvents = <<>>
        /\ NoDoneEvent
        /\ consumed = <<>>
        /\ chunk_count = 0
        /\ upstream.iter = "none"

\* a run that yielded the tags frame, then the timeout message, and returned
C17_Witness ==
    /\ pc = "ended"
    /\ upstream.gen = "APITimeoutError"
    /\ Len(events) = 2
    /\ IsTags(events[1])
    /\ events[2] = [error |-> <<"Request timed out. Please try again.">>]

\* C18: after a tag call that raised or returned nothing usable, the generator
\* stands at the generation call with an empty tag list and no frame yielded;
\* the generation call is made, and every terminal frame of the run comes from
\* the generation call or from the iteration.
C18_TagFailureNotFatal ==
    /\ [](upstream.tags \in {"raised", "unusable"} =>
              /\ tags = <<>>
              /\ \A i \in 1..Len(events) : ~IsTags(events[i])
              /\ upstream.gen = "none" => pc = "gen_call" /\ events = <<>>
              /\ Terminals # {} =>
                     upstream.gen \in ExcClasses \/ upstream.iter # "none"
              /\ pc = "ended" => Cardinality(Terminals) = 1)
    /\ (upstream.tags \in {"raised", "unusable"}) ~> (upstream.gen # "none")

\* a run whose tag call raised and that returned after the done frame
C18_Witness ==
    /\ upstream.tags = "raised"
    /\ pc = "ended"
    /\ IsDone(LastEvent)

\* C19: when the iteration raises after k chunk frames, the run yields one
\* error frame after them and nothing more: no done frame, no further chunk
\* frame, and no further fragment is consumed.
C19_IterationFailureEndsRun ==
    /\ [](upstream.iter \in ExcClasses =>
              /\ Finished /\ pc # "yield_done"
              /\ Cardinality(Terminals) = 1
              /\ IsError(LastEvent)
              /\ NoDoneEvent
              /\ \A i \in 1..(Len(events) - 1) : IsTags(events[i]) \/ IsChunk(events[i])
              /\ Len(ChunkEvents) = Len(Contents(consumed)))
    /\ [][upstream.iter \in ExcClasses => events' = events /\ consumed' = consumed]_vars

\* a run whose iteration raised after two chunk frames and that returned
C19_Witness ==
    /\ upstream.iter \in ExcClasses
    /\ Len(ChunkEvents) = 2
    /\ Len(events) = 3
    /\ IsError(events[3])
    /\ pc = "ended"

\* the exception behind the run's failure, "none" or "ended" if there is none
Failure == IF upstream.gen \in ExcClasses THEN upstream.gen ELSE upstream.iter

\* C20 as stated: no error frame of a run that failed with a rate-limit,
\* timeout or provider error carries the text of the exception, whether the
\* generation call raised it or the iteration.
C20_Original ==
    Failure \in UpstreamKinds =>
        \A i \in 1..Len(events) :
            IsError(events[i]) => ~Contains(events[i].error, ExcText(Failure))

\* C20 amended: the error frame for an exception of the generation call never
\* carries the text of the exception; the error frame for an exception of the
\* iteration carries it, whatever the class of the exception.
C20_RawTextOnlyFromIteration ==
    /\ upstream.gen \in ExcClasses =>
           /\ IsError(LastEvent)
           /\ ~Contains(LastEvent.error, ExcText(upstream.gen))
           /\ upstream.gen \in UpstreamKinds => LastEvent.error = SafeMessage(upstream.gen)
    /\ upstream.iter \in ExcClasses =>
           /\ IsError(LastEvent)
           /\ LastEvent.error = <<"Error during streaming: ">> \o ExcText(upstream.iter)

\* a run whose iteration raised a rate-limit error and that returned after the
\* error frame with the text of the exception
C20_Witness ==
    /\ upstream.iter = "RateLimitError"
    /\ pc = "ended"
    /\ Contains(LastEvent.error, ExcText("RateLimitError"))

(***************************************************************************)
(* Properties of the relay's use of the cache.                             *)
(***************************************************************************)
\* C21 as stated, its first half: a run that has yielded the done frame has
\* handed the text of that frame to set_cached.
C21_Original ==
    pc \in {"yield_done", "ended"} /\ IsDone(LastEvent) =>
        /\ call.op = "set"
        /\ call.payload = LastEvent.text

\* C22 as stated, its first half: a run consults get_cached before it issues
\* the tag call or the generation call.
C22_Original == pc \in {"tags_call", "gen_call"} => call.op = "get"

(***************************************************************************)
(* Properties of the relay under concurrency.                              *)
(***************************************************************************)
\* the client went away while the run was in the loop over the fragments
LeftMidStream == disconnected /\ left_at.pc \in {"next", "yield_chunk", "sleep"}

\* C23 as stated: once the client has gone away in the middle of the stream the
\* run consumes at most one more fragment and yields no further frame.
C23_Original ==
    /\ [](LeftMidStream => Len(consumed) <= left_at.consumed + 1)
    /\ [][LeftMidStream => events' = events]_vars

\* the generator is waiting for an upstream call or at a yield
Waiting ==
    pc \in {"tags_call", "gen_call", "next",
            "yield_tags", "yield_chunk", "yield_error", "yield_done"}

\* C25 as stated: while the generator waits for the tag call, the generation
\* call, the next fragment or at a yield, another request task can take a step.
C25_Original == Waiting /\ other < MaxOtherSteps => ENABLED OtherTask

(***************************************************************************)
(* Properties of the cache under concurrent request tasks.                 *)
(***************************************************************************)
\* task t is inside the check-expire-on-read sequence of get_cached or the
\* check-evict-insert sequence of set_cached
InSection(t) == task[t].pc \notin {"idle", "failed"}

\* no task is inside such a sequence
Quiet == \A t \in Tasks : ~InSection(t)

\* C24: while a task is inside one of the two sequences no other task takes a
\* step of a cache operation; hence between the sequences the two maps have
\* the same keys and hold at most CACHE_MAX_SIZE entries, and no task fails
\* with a KeyError or ValueError on a key that another task removed.
C24_SectionsAtomic ==
    /\ [][\A t \in Tasks : InSection(t) =>
              \A u \in Tasks \ {t} : task'[u] = task[u]]_vars
    /\ [](Quiet => /\ DOMAIN cache = DOMAIN cache_ttl
                   /\ Cardinality(DOMAIN cache) <= CACHE_MAX_SIZE)
    /\ [](\A t \in Tasks : task[t].pc # "failed")

\* a task is between the two pops of an eviction, where the maps disagree,
\* and the other tasks are outside the cache functions
C24_Witness ==
    \E t \in Tasks :
        /\ task[t].pc = "set_140"
        /\ DOMAIN cache # DOMAIN cache_ttl
        /\ current = t
        /\ \A u \in Tasks \ {t} : task[u].pc = "idle"

(***************************************************************************)
(* Properties of the relay's upstream calls.                               *)
(***************************************************************************)
TagsFrames == { i \in 1..Len(events) : IsTags(events[i]) }

\* C26: the tag call and the generation call are each made at most once: once
\* a call has returned or raised, the run never stands at that call again and
\* the outcome recorded for it stays; after a generation call that raised, the
\* run is at its error frame or over and no fragment is ever consumed.
C26_NoRetry ==
    /\ [](upstream.tags # "none" => pc # "tags_call")
    /\ [](upstream.gen # "none" => pc \notin {"tags_call", "gen_call"})
    /\ [][upstream.tags # "none" => upstream'.tags = upstream.tags]_vars
    /\ [][upstream.gen # "none" => upstream'.gen = upstream.gen]_vars
    /\ [](upstream.gen \in ExcClasses =>
              /\ pc \in {"yield_error", "ended", "cancelled"}
              /\ IsError(LastEvent)
              /\ consumed = <<>>
              /\ upstream.iter = "none")

\* a run whose tag call raised, whose generation call timed out and that
\* returned after the one error frame
C26_Witness ==
    /\ upstream.tags = "raised"
    /\ upstream.gen = "APITimeoutError"
    /\ pc = "ended"
    /\ Len(events) = 1

\* C27: a run with caller tags never stands at the tag call, yields no tags
\* frame and keeps exactly the caller's tags for the prompt of line 72; a run
\* without caller tags reaches the generation call only after the tag call has
\* returned or raised.
C27_CallerTagsSkipResolution ==
    /\ request_tags # <<>> =>
           /\ pc # "tags_call"
           /\ upstream.tags = "none"
           /\ TagsFrames = {}
           /\ tags = request_tags
    /\ (request_tags = <<>> /\ (pc = "gen_call" \/ upstream.gen # "none")) =>
           upstream.tags # "none"

\* a run with caller tags that yielded the done frame
C27_Witness ==
    /\ request_tags = << <<"b">> >>
    /\ pc = "yield_done"
    /\ upstream.gen = "returned"

\* the places where the pieces of content begin and end: before its first
\* character, at each comma, after its last character
Cuts(content) ==
    {0} \cup { i \in 1..Len(content) : content[i] = "," } \cup {Len(content) + 1}

\* the cuts in increasing order
RECURSIVE Ascending(_)
Ascending(S) ==
    IF S = {} THEN <<>>
    ELSE LET least == CHOOSE i \in S : \A j \in S : i <= j
         IN  <<least>> \o Ascending(S \ {least})

\* the pieces of content between its commas, in order
Pieces(content) ==
    LET cuts == Ascending(Cuts(content))
    IN  [n \in 1..(Len(cuts) - 1) |-> SubSeq(content, cuts[n] + 1, cuts[n + 1] - 1)]

IsBlank(piece) == \A i \in 1..Len(piece) : piece[i] = " "

NotBlank(piece) == ~IsBlank(piece)

\* the pieces that are not blank, each trimmed and lower-cased, in order
Trimmed(content) ==
    LET kept == SelectSeq(Pieces(content), NotBlank)
    IN  [n \in 1..Len(kept) |-> Lower(Strip(kept[n]))]

\* the first ten of them
FirstTen(l) == [n \in 1..(IF Len(l) < 10 THEN Len(l) ELSE 10) |-> l[n]]

HasText(f) == f.choices /\ f.delta /\ f.value # None /\ Len(f.value) > 0

\* the fragment delivered by this step
Delivered == consumed'[Len(consumed')]

\* C29: the step that consumes a fragment without text yields no frame, leaves
\* the accumulated text as it is and goes on with the loop; so the chunk frames
\* of a run are as many as the fragments with text consumed so far.
C29_EmptyFragmentsSkipped ==
    /\ [][(Len(consumed') = Len(consumed) + 1 /\ ~HasText(Delivered)) =>
              /\ events' = events
              /\ accumulated_text' = accumulated_text
              /\ pc' \in {"next", "sleep"}
              /\ upstream' = upstream]_vars
    /\ [](Len(ChunkEvents) =
              Cardinality({ i \in 1..Len(consumed) : HasText(consumed[i]) }))

\* a run that consumed a fragment without choices, one with empty content and
\* one with text, and yielded the chunk frame and the done frame
C29_Witness ==
    /\ Len(consumed) = 3
    /\ ~consumed[1].choices
    /\ consumed[2].value = <<>>
    /\ consumed[3].value = <<"A">>
    /\ events = <<ChunkEvent(<<"A">>, <<"A">>), DoneEvent(<<"A">>)>>

(***************************************************************************)
(* Properties of the error classifier.                                     *)
(***************************************************************************)
\* C30: the error frame of a run is the frame APIErrorHandler returns for the
\* same failure: handle_openai_error for an exception of the generation call
\* (handle_unexpected_error for one that is no API error), handle_stream_error
\* for an exception of the iteration, handle_empty_stream for a stream that
\* ended without text; and handle_openai_error gives a rate-limit or timeout
\* error, both API errors, the message of its own kind.
C30_SameVocabulary ==
    /\ upstream.gen \in ExcClasses =>
           /\ LastEvent = handle_openai_error(upstream.gen)
           /\ upstream.gen = "Exception" =>
                  LastEvent = handle_unexpected_error(upstream.gen, "")
           /\ upstream.gen = "RateLimitError" =>
                  /\ IsInstance(upstream.gen, "APIError")
                  /\ handle_openai_error(upstream.gen).error
                         = <<"API rate limit exceeded. Please try again later.">>
           /\ upstream.gen = "APITimeoutError" =>
                  /\ IsInstance(upstream.gen, "APIError")
                  /\ handle_openai_error(upstream.gen).error
                         = <<"Request timed out. Please try again.">>
    /\ upstream.iter \in ExcClasses =>
           LastEvent = handle_stream_error(upstream.iter)
    /\ (upstream.iter = "ended" /\ accumulated_text = <<>>) =>
           LastEvent = handle_empty_stream(chunk_count)

\* a run that consumed two fragments without text and returned after the
\* error frame for a stream without content
C30_Witness ==
    /\ upstream.iter = "ended"
    /\ chunk_count = 2
    /\ pc = "ended"
    /\ events = <<handle_empty_stream(2)>>

====
